---- MODULE Spec2Model ----
(***************************************************************************)
(* A model of Terra::ProgramOptions::Parser (src/src/parser.cpp).          *)
(*                                                                         *)
(* A std::string is a sequence of one-character strings, so "" is <<>>     *)
(* and "--color" is <<"-","-","c","o","l","o","r">>.  An                   *)
(* std::optional<std::string_view> is a sequence of length 0 (no value)    *)
(* or 1 (the value).  The option_map is a function whose domain is the set *)
(* of option names that have an entry.  An exception is the error kind a   *)
(* call ends with ("None" when it returns normally).                       *)
(***************************************************************************)
EXTENDS Integers, Sequences, FiniteSets, TLC

VARIABLES
    options,                  \* Parser::options
    short_flags,              \* Parser::short_flags
    long_flags,               \* Parser::long_flags
    option_value_separator,   \* Parser::option_value_separator
    case_insensitive,         \* Parser::case_insensitive
    option_map,               \* Parser::option_map
    last,                     \* history: the call that produced this state
    calls,                    \* history: ParseArguments calls since the map was last cleared
    used                      \* history: tokens handed to ParseArguments since then

vars == <<options, short_flags, long_flags, option_value_separator,
          case_insensitive, option_map, last, calls, used>>

(***************************************************************************)
(* Bounds of the exploration.                                              *)
(***************************************************************************)
\* Tokens (beyond the command name) handed to ParseArguments between two clears
MaxTokens == 3
\* ParseArguments calls between two clears
MaxParses == 2
\* Descriptors in a specification drawn for the validator
MaxOptions == 2

(***************************************************************************)
(* Strings and the option map.                                             *)
(***************************************************************************)
\* std::toupper in the "C" locale, on the letters the model uses
toupper(c) ==
    CASE c = "a" -> "A" [] c = "b" -> "B" [] c = "c" -> "C" [] c = "d" -> "D"
      [] c = "e" -> "E" [] c = "f" -> "F" [] c = "g" -> "G" [] c = "h" -> "H"
      [] c = "i" -> "I" [] c = "j" -> "J" [] c = "k" -> "K" [] c = "l" -> "L"
      [] c = "m" -> "M" [] c = "n" -> "N" [] c = "o" -> "O" [] c = "p" -> "P"
      [] c = "q" -> "Q" [] c = "r" -> "R" [] c = "s" -> "S" [] c = "t" -> "T"
      [] c = "u" -> "U" [] c = "v" -> "V" [] c = "w" -> "W" [] c = "x" -> "X"
      [] c = "y" -> "Y" [] c = "z" -> "Z" [] OTHER -> c

\* Parser::Uppercase: std::transform of the string with toupper
Uppercase(some_string) ==
    [k \in 1..Len(some_string) |-> toupper(some_string[k])]

\* std::string(first, last) for the iterator range [first, end of s)
\* A faulty copy that starts one character late
StringFromNext(s, first) == SubSeq(s, first + 1, Len(s))

StringFrom(s, first) == SubSeq(s, first, Len(s))

\* A default-constructed option_map, and the map after option_map.clear()
EmptyMap == [name \in {} |-> <<>>]

\* A faulty store that creates the entry but appends no empty value
EmplaceBackUnlessEmpty(map, key, value) ==
    [name \in DOMAIN map \cup {key} |->
        IF name = key /\ value # <<>>
        THEN Append(IF name \in DOMAIN map THEN map[name] ELSE <<>>, value)
        ELSE IF name \in DOMAIN map THEN map[name] ELSE <<>>]

\* option_map[key].emplace_back(value): operator[] creates the entry if absent
EmplaceBack(map, key, value) ==
    [name \in DOMAIN map \cup {key} |->
        IF name = key
        THEN (IF key \in DOMAIN map THEN Append(map[key], value) ELSE <<value>>)
        ELSE map[name]]

\* The recorded values of a name, <<>> when it has no entry
ValuesOf(map, name) == IF name \in DOMAIN map THEN map[name] ELSE <<>>

(***************************************************************************)
(* Parser::FindStringStart.  The iterator start_iterator is the position   *)
(* start in 1..Len(s)+1 and the end iterator is Len(s)+1.  The result is   *)
(* the returned bool and the position the iterator is left at.             *)
(***************************************************************************)
\* A faulty loop that compares the prefix up to case when the parser
\* ignores case
RECURSIVE FindStringStartLoopFolded(_, _, _, _)
FindStringStartLoopFolded(prefix, s, k, start_iterator) ==
    IF k > Len(prefix)
    THEN [prefix_characters_matched |-> k - 1, start_iterator |-> start_iterator]
    ELSE IF \/ prefix[k] = s[start_iterator]
            \/ /\ case_insensitive
               /\ toupper(prefix[k]) = toupper(s[start_iterator])
    THEN (IF start_iterator + 1 = Len(s) + 1
          THEN [prefix_characters_matched |-> k,
                start_iterator |-> start_iterator + 1]
          ELSE FindStringStartLoopFolded(prefix, s, k + 1, start_iterator + 1))
    ELSE [prefix_characters_matched |-> k - 1, start_iterator |-> start_iterator]

RECURSIVE FindStringStartLoop(_, _, _, _)
FindStringStartLoop(prefix, s, k, start_iterator) ==
    IF k > Len(prefix)
    THEN [prefix_characters_matched |-> k - 1, start_iterator |-> start_iterator]
    ELSE IF prefix[k] = s[start_iterator]
    THEN (IF start_iterator + 1 = Len(s) + 1
          THEN [prefix_characters_matched |-> k,
                start_iterator |-> start_iterator + 1]
          ELSE FindStringStartLoop(prefix, s, k + 1, start_iterator + 1))
    ELSE [prefix_characters_matched |-> k - 1, start_iterator |-> start_iterator]

\* A faulty search that finds a prefix only when something follows it
FindStringStartBeforeEnd(prefix, s, start_iterator) ==
    IF start_iterator = Len(s) + 1
    THEN [found |-> FALSE, start_iterator |-> start_iterator]
    ELSE LET r == FindStringStartLoop(prefix, s, 1, start_iterator)
         IN  [found |-> (Len(prefix) = r.prefix_characters_matched
                            /\ r.start_iterator # Len(s) + 1),
              start_iterator |-> r.start_iterator]

FindStringStart(prefix, s, start_iterator) ==
    IF start_iterator = Len(s) + 1
    THEN [found |-> FALSE, start_iterator |-> start_iterator]
    ELSE LET r == FindStringStartLoop(prefix, s, 1, start_iterator)
         IN  [found |-> (Len(prefix) = r.prefix_characters_matched),
              start_iterator |-> r.start_iterator]

(***************************************************************************)
(* Parser::FindOptionStart: the flags are tried in vector order, each from *)
(* the saved start of the argument, and the first one found is returned.   *)
(***************************************************************************)
\* A faulty loop that tries the flags from the last one to the first
RECURSIVE FindOptionStartLoopBackwards(_, _, _)
FindOptionStartLoopBackwards(flags, s, f) ==
    IF f > Len(flags)
    THEN [found |-> FALSE, start_iterator |-> 1]
    ELSE IF FindStringStart(flags[Len(flags) + 1 - f], s, 1).found
    THEN FindStringStart(flags[Len(flags) + 1 - f], s, 1)
    ELSE FindOptionStartLoopBackwards(flags, s, f + 1)

RECURSIVE FindOptionStartLoop(_, _, _)
FindOptionStartLoop(flags, s, f) ==
    IF f > Len(flags)
    THEN [found |-> FALSE, start_iterator |-> 1]
    ELSE LET r == FindStringStart(flags[f], s, 1)
         IN  IF r.found THEN r ELSE FindOptionStartLoop(flags, s, f + 1)

FindOptionStart(flags, s) ==
    IF 1 = Len(s) + 1
    THEN [found |-> FALSE, start_iterator |-> 1]
    ELSE FindOptionStartLoop(flags, s, 1)

(***************************************************************************)
(* The running state of one ParseArguments call: the option_map as written *)
(* so far, the exception in flight (err), what ProcessLong/ShortOption and *)
(* StoreOption return (matched, consumed), and a log of what was stored or    *)
(* thrown for each token, which is history only.                           *)
(***************************************************************************)
NoError == "None"

Begin(map) ==
    [map |-> map, err |-> NoError, matched |-> FALSE, consumed |-> FALSE,
     log |-> <<>>]

\* One log entry: kind is "option" for a StoreOption call, "string" for a
\* store under the key "" and "error" for an exception thrown by the matcher
\* itself; site is the place of the call; at is the position of the token,
\* filled in by the ParseArguments loop; had tells whether option.name had an
\* entry before; outcome is "stored" or the error thrown.
LogEntry(kind, site, option, had, value, outcome) ==
    [kind |-> kind, site |-> site, at |-> 0, option |-> option,
     had |-> had, value |-> value, outcome |-> outcome]

\* The descriptor that the log entries made for no descriptor carry
NoOption ==
    [name |-> <<>>, short_option |-> <<>>, long_option |-> <<>>,
     multiple_allowed |-> TRUE, parameter_expected |-> FALSE]

\* option_map[""].emplace_back(argument)
StoreString(st, argument, site) ==
    [st EXCEPT !.map = EmplaceBack(st.map, <<>>, argument),
               !.log = Append(st.log,
                              LogEntry("string", site, NoOption,
                                       <<>> \in DOMAIN st.map, argument,
                                       "stored"))]

\* throw OptionsException(..., error) from the matcher
Throw(st, error, site, option) ==
    [st EXCEPT !.err = error,
               !.log = Append(st.log,
                              LogEntry("error", site, option,
                                       option.name \in DOMAIN st.map, <<>>,
                                       error))]

(***************************************************************************)
(* Parser::StoreOption.  site names the call site and is history only.     *)
(***************************************************************************)
\* A faulty test that only refuses a second instance of an option with a value
MultipleInstancesOfValueOption(map, option) ==
    (option.name \in DOMAIN map) /\ ~option.multiple_allowed
        /\ option.parameter_expected

\* A faulty test that looks the option up by its short form
MultipleInstancesFoundByShort(map, option) ==
    (option.short_option \in DOMAIN map) /\ ~option.multiple_allowed

\* (option_map.find(option.name) != option_map.end()) && !option.multiple_allowed
MultipleInstancesFound(map, option) ==
    (option.name \in DOMAIN map) /\ ~option.multiple_allowed

\* A faulty store that looks for the parameter before it looks for an
\* earlier instance
StoreOptionValueFirst(st, option, parameter, site) ==
    LET entry(value, outcome) ==
            LogEntry("option", site, option, option.name \in DOMAIN st.map,
                     value, outcome)
    IN  IF option.parameter_expected /\ parameter = <<>>
        THEN [st EXCEPT !.err = "MissingOptionArgument",
                        !.log = Append(st.log,
                                       entry(<<>>, "MissingOptionArgument"))]
        ELSE IF MultipleInstancesFound(st.map, option)
        THEN [st EXCEPT !.err = "MultipleInstances",
                        !.log = Append(st.log, entry(<<>>, "MultipleInstances"))]
        ELSE IF ~option.parameter_expected
        THEN [st EXCEPT !.map = EmplaceBack(st.map, option.name, <<>>),
                        !.consumed = FALSE,
                        !.log = Append(st.log, entry(<<>>, "stored"))]
        ELSE [st EXCEPT !.map = EmplaceBack(st.map, option.name, parameter[1]),
                        !.consumed = TRUE,
                        !.log = Append(st.log, entry(parameter[1], "stored"))]

\* A faulty store that records an empty value where a parameter is missing
StoreOptionPlaceholder(st, option, parameter, site) ==
    LET entry(value, outcome) ==
            LogEntry("option", site, option, option.name \in DOMAIN st.map,
                     value, outcome)
        value == IF option.parameter_expected /\ parameter # <<>>
                 THEN parameter[1] ELSE <<>>
    IN  IF MultipleInstancesFound(st.map, option)
        THEN [st EXCEPT !.err = "MultipleInstances",
                        !.log = Append(st.log, entry(<<>>, "MultipleInstances"))]
        ELSE [st EXCEPT !.map = EmplaceBack(st.map, option.name, value),
                        !.consumed = (option.parameter_expected
                                          /\ parameter # <<>>),
                        !.log = Append(st.log, entry(value, "stored"))]

\* A faulty store that reaches for the option's entry before it looks at the
\* parameter, so that a missing parameter leaves an entry without a value
StoreOptionCreating(st, option, parameter, site) ==
    LET entry(value, outcome) ==
            LogEntry("option", site, option, option.name \in DOMAIN st.map,
                     value, outcome)
    IN  IF MultipleInstancesFound(st.map, option)
        THEN [st EXCEPT !.err = "MultipleInstances",
                        !.log = Append(st.log, entry(<<>>, "MultipleInstances"))]
        ELSE IF ~option.parameter_expected
        THEN [st EXCEPT !.map = EmplaceBack(st.map, option.name, <<>>),
                        !.consumed = FALSE,
                        !.log = Append(st.log, entry(<<>>, "stored"))]
        ELSE IF parameter = <<>>
        THEN [st EXCEPT !.map = [name \in DOMAIN st.map \cup {option.name} |->
                                    ValuesOf(st.map, name)],
                        !.err = "MissingOptionArgument",
                        !.log = Append(st.log,
                                       entry(<<>>, "MissingOptionArgument"))]
        ELSE [st EXCEPT !.map = EmplaceBack(st.map, option.name, parameter[1]),
                        !.consumed = TRUE,
                        !.log = Append(st.log, entry(parameter[1], "stored"))]

StoreOption(st, option, parameter, site) ==
    LET entry(value, outcome) ==
            LogEntry("option", site, option, option.name \in DOMAIN st.map,
                     value, outcome)
    IN  IF MultipleInstancesFound(st.map, option)
        THEN [st EXCEPT !.err = "MultipleInstances",
                        !.log = Append(st.log, entry(<<>>, "MultipleInstances"))]
        ELSE IF ~option.parameter_expected
        THEN [st EXCEPT !.map = EmplaceBack(st.map, option.name, <<>>),
                        !.consumed = FALSE,
                        !.log = Append(st.log, entry(<<>>, "stored"))]
        ELSE IF parameter = <<>>
        THEN [st EXCEPT !.err = "MissingOptionArgument",
                        !.log = Append(st.log,
                                       entry(<<>>, "MissingOptionArgument"))]
        ELSE [st EXCEPT !.map = EmplaceBack(st.map, option.name, parameter[1]),
                        !.consumed = TRUE,
                        !.log = Append(st.log, entry(parameter[1], "stored"))]

(***************************************************************************)
(* Parser::ProcessLongOption.                                              *)
(***************************************************************************)
\* The inner loop that matches option.long_option at argument_start_iterator
RECURSIVE LongNameLoop(_, _, _, _)
LongNameLoop(long_option, argument, k, argument_end_iterator) ==
    IF k > Len(long_option)
    THEN [option_characters_matched |-> k - 1,
          argument_end_iterator |-> argument_end_iterator]
    ELSE IF \/ long_option[k] = argument[argument_end_iterator]
            \/ /\ case_insensitive
               /\ toupper(long_option[k]) = toupper(argument[argument_end_iterator])
    THEN (IF argument_end_iterator + 1 = Len(argument) + 1
          THEN [option_characters_matched |-> k,
                argument_end_iterator |-> argument_end_iterator + 1]
          ELSE LongNameLoop(long_option, argument, k + 1,
                            argument_end_iterator + 1))
    ELSE [option_characters_matched |-> k - 1,
          argument_end_iterator |-> argument_end_iterator]

\* A faulty loop that attributes the argument to the last descriptor that
\* matches it
RECURSIVE LongOptionLoopLatest(_, _, _, _, _)
LongOptionLoopLatest(st, argument, parameter, argument_start_iterator, j) ==
    IF j > Len(options)
    THEN st
    ELSE LET option == options[j]
             m == LongNameLoop(option.long_option, argument, 1,
                               argument_start_iterator)
             v == FindStringStart(option_value_separator, argument,
                                  m.argument_end_iterator)
             next == LongOptionLoopLatest(st, argument, parameter,
                                    argument_start_iterator, j + 1)
         IN  IF next.matched \/ next.err # NoError
             THEN next
             ELSE IF option.long_option = <<>>
             THEN next
             ELSE IF m.option_characters_matched < Len(option.long_option)
             THEN next
             ELSE IF m.argument_end_iterator = Len(argument) + 1
             THEN LET s == StoreOption(st, option, parameter, "long")
                  IN  IF s.err # NoError THEN s ELSE [s EXCEPT !.matched = TRUE]
             ELSE IF v.found
             THEN (IF ~option.parameter_expected
                   THEN Throw(st, "MissingOptionArgument", "long-value", option)
                   ELSE IF v.start_iterator = Len(argument) + 1
                   THEN Throw(st, "MissingOptionArgument", "long-value", option)
                   ELSE LET s == StoreOption(
                                    st, option,
                                    <<StringFrom(argument, v.start_iterator)>>,
                                    "long-value")
                        IN  IF s.err # NoError
                            THEN s
                            ELSE [s EXCEPT !.matched = TRUE,
                                           !.consumed = FALSE])
             ELSE next

\* A faulty loop that ends when a long option matches only the beginning of
\* the argument
RECURSIVE LongOptionLoopStopping(_, _, _, _, _)
LongOptionLoopStopping(st, argument, parameter, argument_start_iterator, j) ==
    IF j > Len(options)
    THEN st
    ELSE LET option == options[j]
             m == LongNameLoop(option.long_option, argument, 1,
                               argument_start_iterator)
             v == FindStringStart(option_value_separator, argument,
                                  m.argument_end_iterator)
             next == LongOptionLoopStopping(st, argument, parameter,
                                    argument_start_iterator, j + 1)
         IN  IF option.long_option = <<>>
             THEN next
             ELSE IF m.option_characters_matched < Len(option.long_option)
             THEN next
             ELSE IF m.argument_end_iterator = Len(argument) + 1
             THEN LET s == StoreOption(st, option, parameter, "long")
                  IN  IF s.err # NoError THEN s ELSE [s EXCEPT !.matched = TRUE]
             ELSE IF v.found
             THEN (IF ~option.parameter_expected
                   THEN Throw(st, "MissingOptionArgument", "long-value", option)
                   ELSE IF v.start_iterator = Len(argument) + 1
                   THEN Throw(st, "MissingOptionArgument", "long-value", option)
                   ELSE LET s == StoreOption(
                                    st, option,
                                    <<StringFrom(argument, v.start_iterator)>>,
                                    "long-value")
                        IN  IF s.err # NoError
                            THEN s
                            ELSE [s EXCEPT !.matched = TRUE,
                                           !.consumed = FALSE])
             ELSE st

\* A faulty loop that takes a separator it cannot accept a value after as no
\* match and goes on to the next descriptor
RECURSIVE LongOptionLoopContinuing(_, _, _, _, _)
LongOptionLoopContinuing(st, argument, parameter, argument_start_iterator, j) ==
    IF j > Len(options)
    THEN st
    ELSE LET option == options[j]
             m == LongNameLoop(option.long_option, argument, 1,
                               argument_start_iterator)
             v == FindStringStart(option_value_separator, argument,
                                  m.argument_end_iterator)
             next == LongOptionLoopContinuing(st, argument, parameter,
                                              argument_start_iterator, j + 1)
         IN  IF option.long_option = <<>>
             THEN next
             ELSE IF m.option_characters_matched < Len(option.long_option)
             THEN next
             ELSE IF m.argument_end_iterator = Len(argument) + 1
             THEN LET s == StoreOption(st, option, parameter, "long")
                  IN  IF s.err # NoError THEN s ELSE [s EXCEPT !.matched = TRUE]
             ELSE IF v.found
             THEN (IF ~option.parameter_expected
                   THEN next
                   ELSE IF v.start_iterator = Len(argument) + 1
                   THEN next
                   ELSE LET s == StoreOption(
                                    st, option,
                                    <<StringFrom(argument, v.start_iterator)>>,
                                    "long-value")
                        IN  IF s.err # NoError
                            THEN s
                            ELSE [s EXCEPT !.matched = TRUE,
                                           !.consumed = FALSE])
             ELSE next

\* The loop over the options specification, from descriptor j on
RECURSIVE LongOptionLoop(_, _, _, _, _)
LongOptionLoop(st, argument, parameter, argument_start_iterator, j) ==
    IF j > Len(options)
    THEN st
    ELSE LET option == options[j]
             m == LongNameLoop(option.long_option, argument, 1,
                               argument_start_iterator)
             v == FindStringStart(option_value_separator, argument,
                                  m.argument_end_iterator)
             next == LongOptionLoop(st, argument, parameter,
                                    argument_start_iterator, j + 1)
         IN  IF option.long_option = <<>>
             THEN next
             ELSE IF m.option_characters_matched < Len(option.long_option)
             THEN next
             ELSE IF m.argument_end_iterator = Len(argument) + 1
             THEN LET s == StoreOption(st, option, parameter, "long")
                  IN  IF s.err # NoError THEN s ELSE [s EXCEPT !.matched = TRUE]
             ELSE IF v.found
             THEN (IF ~option.parameter_expected
                   THEN Throw(st, "MissingOptionArgument", "long-value", option)
                   ELSE IF v.start_iterator = Len(argument) + 1
                   THEN Throw(st, "MissingOptionArgument", "long-value", option)
                   ELSE LET s == StoreOption(
                                    st, option,
                                    <<StringFrom(argument, v.start_iterator)>>,
                                    "long-value")
                        IN  IF s.err # NoError
                            THEN s
                            ELSE [s EXCEPT !.matched = TRUE,
                                           !.consumed = FALSE])
             ELSE next

\* A faulty end that reports an unmatched long option as not handled
LongOptionResultUnmatched(r) == r

\* The end of ProcessLongOption once the loop over the options returned r
LongOptionResult(r) ==
    IF r.err # NoError
    THEN r
    ELSE IF ~r.matched
    THEN Throw(r, "InvalidLongOption", "long", NoOption)
    ELSE r

\* ProcessLongOption once FindOptionStart has returned f for the argument
LongOptionFrom(s0, argument, parameter, f) ==
    IF ~f.found
    THEN s0
    ELSE IF f.start_iterator = Len(argument) + 1
    THEN [StoreString(s0, argument, "long-flag") EXCEPT !.matched = TRUE]
    ELSE LongOptionResult(
             LongOptionLoop(s0, argument, parameter, f.start_iterator, 1))

ProcessLongOption(st, argument, parameter) ==
    IF argument = <<>>
    THEN [st EXCEPT !.matched = FALSE, !.consumed = FALSE]
    ELSE LongOptionFrom([st EXCEPT !.matched = FALSE, !.consumed = FALSE],
                        argument, parameter,
                        FindOptionStart(long_flags, argument))

(***************************************************************************)
(* Parser::ProcessShortOption.                                             *)
(***************************************************************************)
\* A faulty loop over the options that takes the last descriptor for a
\* character that matches none
RECURSIVE ShortOptionMatchOrLast(_, _)
ShortOptionMatchOrLast(user_option, j) ==
    IF j > Len(options)
    THEN Len(options)
    ELSE IF options[j].short_option = <<>>
    THEN ShortOptionMatchOrLast(user_option, j + 1)
    ELSE IF \/ options[j].short_option = user_option
            \/ /\ case_insensitive
               /\ Uppercase(options[j].short_option) = Uppercase(user_option)
    THEN j
    ELSE ShortOptionMatchOrLast(user_option, j + 1)

\* The loop over the options for one character: the index of the first
\* descriptor whose short option matches user_option, 0 if there is none
RECURSIVE ShortOptionMatch(_, _)
ShortOptionMatch(user_option, j) ==
    IF j > Len(options)
    THEN 0
    ELSE IF options[j].short_option = <<>>
    THEN ShortOptionMatch(user_option, j + 1)
    ELSE IF \/ options[j].short_option = user_option
            \/ /\ case_insensitive
               /\ Uppercase(options[j].short_option) = Uppercase(user_option)
    THEN j
    ELSE ShortOptionMatch(user_option, j + 1)

\* A faulty loop that stops after the first character of the option string
ShortOptionLoopFirstOnly(st, argument, parameter, argument_iterator) ==
    IF argument_iterator = Len(argument) + 1
    THEN [st EXCEPT !.matched = TRUE]
    ELSE LET j == ShortOptionMatch(<<argument[argument_iterator]>>, 1)
             s == StoreOption(st, options[j], parameter, "short-last")
         IN  IF j = 0
             THEN Throw(st, "InvalidShortOption", "short", NoOption)
             ELSE IF s.err # NoError
             THEN s
             ELSE [s EXCEPT !.matched = TRUE]

\* A faulty loop that takes what follows a value separator in the option
\* string as the value of the character before it
RECURSIVE ShortOptionLoopSeparated(_, _, _, _)
ShortOptionLoopSeparated(st, argument, parameter, argument_iterator) ==
    IF argument_iterator = Len(argument) + 1
    THEN [st EXCEPT !.matched = TRUE]
    ELSE LET user_option == <<argument[argument_iterator]>>
             next == argument_iterator + 1
             j == ShortOptionMatch(user_option, 1)
             v == FindStringStart(option_value_separator, argument, next)
             s == IF next = Len(argument) + 1
                  THEN StoreOption(st, options[j], parameter, "short-last")
                  ELSE IF v.found /\ v.start_iterator # Len(argument) + 1
                  THEN [StoreOption(st, options[j],
                                    <<StringFrom(argument, v.start_iterator)>>,
                                    "short-inner")
                            EXCEPT !.consumed = st.consumed]
                  ELSE [StoreOption(st, options[j], <<>>, "short-inner")
                            EXCEPT !.consumed = st.consumed]
         IN  IF j = 0
             THEN Throw(st, "InvalidShortOption", "short", NoOption)
             ELSE IF s.err # NoError
             THEN s
             ELSE IF next # Len(argument) + 1 /\ v.found
                        /\ v.start_iterator # Len(argument) + 1
             THEN [s EXCEPT !.matched = TRUE]
             ELSE ShortOptionLoopSeparated(s, argument, parameter, next)

\* The loop over the characters of the option string
RECURSIVE ShortOptionLoop(_, _, _, _)
ShortOptionLoop(st, argument, parameter, argument_iterator) ==
    IF argument_iterator = Len(argument) + 1
    THEN [st EXCEPT !.matched = TRUE]
    ELSE LET user_option == <<argument[argument_iterator]>>
             next == argument_iterator + 1
             j == ShortOptionMatch(user_option, 1)
             s == IF next = Len(argument) + 1
                  THEN StoreOption(st, options[j], parameter, "short-last")
                  ELSE [StoreOption(st, options[j], <<>>, "short-inner")
                            EXCEPT !.consumed = st.consumed]
         IN  IF j = 0
             THEN Throw(st, "InvalidShortOption", "short", NoOption)
             ELSE IF s.err # NoError
             THEN s
             ELSE ShortOptionLoop(s, argument, parameter, next)

ProcessShortOption(st, argument, parameter) ==
    LET s0 == [st EXCEPT !.matched = FALSE, !.consumed = FALSE]
        f  == FindOptionStart(short_flags, argument)
    IN  IF argument = <<>>
        THEN s0
        ELSE IF ~f.found
        THEN s0
        ELSE IF f.start_iterator = Len(argument) + 1
        THEN [StoreString(s0, argument, "short-flag") EXCEPT !.matched = TRUE]
        ELSE ShortOptionLoop(s0, argument, parameter, f.start_iterator)

(***************************************************************************)
(* Parser::ProcessArgument: consumed is the returned bool.                 *)
(***************************************************************************)
\* A faulty fall-through that reports the parameter as consumed
AfterShortOptionConsuming(s, argument) ==
    IF s.err # NoError \/ s.matched
    THEN s
    ELSE [StoreString(s, argument, "string") EXCEPT !.consumed = TRUE]

\* if (ProcessShortOption(argument, parameter, consumed)) return consumed;
\* and the fall-through that stores the argument as a plain string
AfterShortOption(s, argument) ==
    IF s.err # NoError \/ s.matched
    THEN s
    ELSE [StoreString(s, argument, "string") EXCEPT !.consumed = FALSE]

\* if (ProcessLongOption(argument, parameter, consumed)) return consumed;
AfterLongOption(l, argument, parameter) ==
    IF l.err # NoError \/ l.matched
    THEN l
    ELSE AfterShortOption(ProcessShortOption(l, argument, parameter), argument)

\* A faulty order that considers the short option formats first
LongOptionLast(l, argument) ==
    IF l.err # NoError \/ l.matched
    THEN l
    ELSE [StoreString(l, argument, "string") EXCEPT !.consumed = FALSE]

ShortOptionFirst(s, argument, parameter) ==
    IF s.err # NoError \/ s.matched
    THEN s
    ELSE LongOptionLast(ProcessLongOption(s, argument, parameter), argument)

ProcessArgumentShortFirst(st, argument, parameter) ==
    IF argument # <<>>
    THEN ShortOptionFirst(ProcessShortOption(st, argument, parameter),
                          argument, parameter)
    ELSE [StoreString(st, argument, "string") EXCEPT !.consumed = FALSE]

ProcessArgument(st, argument, parameter) ==
    IF argument # <<>>
    THEN AfterLongOption(ProcessLongOption(st, argument, parameter),
                         argument, parameter)
    ELSE [StoreString(st, argument, "string") EXCEPT !.consumed = FALSE]

(***************************************************************************)
(* Parser::ParseArguments(const std::vector<std::string_view> &).          *)
(* arguments[1] is the command name; the C++ index i is the position i+1.  *)
(***************************************************************************)
\* A faulty step that never skips the consumed parameter
NextArgumentUnskipped(i, parameter_consumed) == i + 1

\* if (ProcessArgument(arguments[i], parameter)) i++;  followed by the loop's i++
NextArgument(i, parameter_consumed) ==
    IF parameter_consumed THEN i + 2 ELSE i + 1

\* history: the entries logged for the token at position i get its position
Stamped(r, before, i) ==
    [r EXCEPT !.log = [k \in 1..Len(r.log) |->
                          IF k > before THEN [r.log[k] EXCEPT !.at = i]
                                        ELSE r.log[k]]]

\* A faulty choice that hands the last argument to itself as its parameter
ParameterOrItself(arguments, i) ==
    IF i < Len(arguments) THEN <<arguments[i + 1]>> ELSE <<arguments[i]>>

\* parameter: the argument after arguments[i], when there is one
Parameter(arguments, i) ==
    IF i < Len(arguments) THEN <<arguments[i + 1]>> ELSE <<>>

RECURSIVE ParseArgumentsLoop(_, _, _)
\* The rest of the loop once ProcessArgument has returned r for arguments[i]
ParseArgumentsStep(r, arguments, i) ==
    IF r.err # NoError
    THEN r
    ELSE ParseArgumentsLoop(r, arguments, NextArgument(i, r.consumed))

ParseArgumentsLoop(st, arguments, i) ==
    IF i > Len(arguments)
    THEN st
    ELSE ParseArgumentsStep(
             Stamped(ProcessArgument(st, arguments[i], Parameter(arguments, i)),
                     Len(st.log), i),
             arguments, i)

\* A faulty loop that starts at the command name
ParseArgumentsFromCommand(map, arguments) ==
    IF Len(arguments) = 0
    THEN Begin(map)
    ELSE ParseArgumentsLoop(Begin(map), arguments, 1)

\* A variant that clears the option_map before it parses
ParseArgumentsFromCleared(map, arguments) ==
    IF Len(arguments) <= 1
    THEN Begin(map)
    ELSE ParseArgumentsLoop(Begin(EmptyMap), arguments, 2)

\* The call run on the map it finds: ParseArguments does not clear option_map
ParseArgumentsFrom(map, arguments) ==
    IF Len(arguments) <= 1
    THEN Begin(map)
    ELSE ParseArgumentsLoop(Begin(map), arguments, 2)

(***************************************************************************)
(* Parser::CheckOptionFlags and Parser::CheckOptions, run on the members   *)
(* SetOptions has just assigned.  The result is the OptionsError of the    *)
(* SpecificationException thrown, NoError when none is.                    *)
(***************************************************************************)
CheckOptionFlags(long, short) ==
    IF \E l \in 1..Len(long) : \E s \in 1..Len(short) : long[l] = short[s]
    THEN "FlagConflict"
    ELSE NoError

\* if (!option.short_option.empty())
ShortOptionSpecified(option) == option.short_option # <<>>

\* A faulty length test that lets a two-character short option through
ShortOptionLongerThanTwo(option) == Len(option.short_option) > 2

\* if (option.short_option.length() > 1)
ShortOptionTooLong(option) == Len(option.short_option) > 1

\* A faulty guard that looks the empty long option up too
LongOptionAlwaysChecked(option) == TRUE

\* if (!option.long_option.empty())
LongOptionSpecified(option) == option.long_option # <<>>

\* The loop over the options from descriptor i on; identifiers, short_options
\* and long_options are the keys of the three local maps
RECURSIVE CheckOptionsLoop(_, _, _, _, _)
CheckOptionsLoop(opts, i, identifiers, short_options, long_options) ==
    IF i > Len(opts)
    THEN NoError
    ELSE LET option == opts[i]
         IN  IF option.name = <<>>
             THEN "EmptyIdentifierName"
             ELSE IF option.name \in identifiers
             THEN "DuplicateIdentifier"
             ELSE IF /\ ShortOptionSpecified(option)
                     /\ option.short_option \in short_options
             THEN "DuplicateShortOption"
             ELSE IF ShortOptionSpecified(option) /\ ShortOptionTooLong(option)
             THEN "InvalidShortOption"
             ELSE IF /\ LongOptionSpecified(option)
                     /\ option.long_option \in long_options
             THEN "DuplicateLongOption"
             ELSE CheckOptionsLoop(
                     opts, i + 1,
                     identifiers \cup {option.name},
                     IF ShortOptionSpecified(option)
                     THEN short_options \cup {option.short_option}
                     ELSE short_options,
                     IF LongOptionSpecified(option)
                     THEN long_options \cup {option.long_option}
                     ELSE long_options)

\* A faulty validator that compares the short and the long options up to case
CheckOptionsFolded(opts) ==
    CheckOptionsLoop([k \in 1..Len(opts) |->
                         [opts[k] EXCEPT !.short_option = Uppercase(@),
                                         !.long_option = Uppercase(@)]],
                     1, {}, {}, {})

CheckOptions(opts) == CheckOptionsLoop(opts, 1, {}, {}, {})

(***************************************************************************)
(* The parser's configuration as one value, and the record of a call.      *)
(***************************************************************************)
Config(o, short, long, separator, insensitive) ==
    [options |-> o, short_flags |-> short, long_flags |-> long,
     option_value_separator |-> separator, case_insensitive |-> insensitive]

Installed ==
    Config(options, short_flags, long_flags, option_value_separator,
           case_insensitive)

\* op: the member function; err: the exception it ended with; given: the
\* configuration passed in (the installed one for calls that take none);
\* pre_config: the configuration before the call; pre_entries: whether the
\* option_map had entries before it; pre_map, arguments, log: for a
\* ParseArguments call the option_map it found, its tokens and the stores it
\* attempted (empty for the other calls); for a query, pre_map is the
\* option_map it found and arguments the name asked for
Call(op, err, given, pre_config, pre_map, arguments, log) ==
    [op |-> op, err |-> err, given |-> given, pre_config |-> pre_config,
     pre_entries |-> (DOMAIN option_map # {}),
     pre_map |-> pre_map, arguments |-> arguments, log |-> log]

(***************************************************************************)
(* The member functions as actions.                                        *)
(***************************************************************************)
\* Parser::Parser(Options, short_flags, long_flags, separator, bool): the
\* members are initialised from the arguments and the body is empty
Construct(config) ==
    /\ options = config.options
    /\ short_flags = config.short_flags
    /\ long_flags = config.long_flags
    /\ option_value_separator = config.option_value_separator
    /\ case_insensitive = config.case_insensitive
    /\ option_map = EmptyMap
    /\ last = [Call("Parser", NoError, config, config, EmptyMap, <<>>, <<>>)
                   EXCEPT !.pre_entries = FALSE]
    /\ calls = 0
    /\ used = 0

\* A variant that validates its arguments before it touches the parser
SetOptionsCheckedFirst(config) ==
    LET flag_error == CheckOptionFlags(config.long_flags, config.short_flags)
        error == IF flag_error # NoError THEN flag_error
                                         ELSE CheckOptions(config.options)
    IN  /\ options' = IF error = NoError THEN config.options ELSE options
        /\ short_flags' =
              IF error = NoError THEN config.short_flags ELSE short_flags
        /\ long_flags' =
              IF error = NoError THEN config.long_flags ELSE long_flags
        /\ option_value_separator' =
              IF error = NoError THEN config.option_value_separator
                                 ELSE option_value_separator
        /\ case_insensitive' =
              IF error = NoError THEN config.case_insensitive
                                 ELSE case_insensitive
        /\ option_map' = IF error = NoError THEN EmptyMap ELSE option_map
        /\ last' = Call("SetOptions", error, config, Installed, EmptyMap,
                        <<>>, <<>>)
        /\ calls' = IF error = NoError THEN 0 ELSE calls
        /\ used' = IF error = NoError THEN 0 ELSE used

\* A faulty install that leaves the entries of the earlier specification
SetOptionsKeepingEntries(config) ==
    LET flag_error == CheckOptionFlags(config.long_flags, config.short_flags)
        error == IF flag_error # NoError THEN flag_error
                                         ELSE CheckOptions(config.options)
    IN  /\ options' = config.options
        /\ short_flags' = config.short_flags
        /\ long_flags' = config.long_flags
        /\ option_value_separator' = config.option_value_separator
        /\ case_insensitive' = config.case_insensitive
        /\ option_map' = option_map
        /\ last' = Call("SetOptions", error, config, Installed, EmptyMap,
                        <<>>, <<>>)
        /\ UNCHANGED <<calls, used>>

\* Parser::SetOptions: assign the members, ClearOptions(), CheckOptionFlags(),
\* CheckOptions(); an exception leaves what was done before it
SetOptions(config) ==
    LET flag_error == CheckOptionFlags(config.long_flags, config.short_flags)
        error == IF flag_error # NoError THEN flag_error
                                         ELSE CheckOptions(config.options)
    IN  /\ options' = config.options
        /\ short_flags' = config.short_flags
        /\ long_flags' = config.long_flags
        /\ option_value_separator' = config.option_value_separator
        /\ case_insensitive' = config.case_insensitive
        /\ option_map' = EmptyMap
        /\ last' = Call("SetOptions", error, config, Installed, EmptyMap,
                        <<>>, <<>>)
        /\ calls' = 0
        /\ used' = 0

\* A faulty clear that erases the strings stored under the key "" only
ClearOptionsOfStrings ==
    /\ option_map' = [name \in DOMAIN option_map \ {<<>>} |-> option_map[name]]
    /\ last' = Call("ClearOptions", NoError, Installed, Installed, EmptyMap,
                    <<>>, <<>>)
    /\ calls' = 0
    /\ used' = 0
    /\ UNCHANGED <<options, short_flags, long_flags, option_value_separator,
                   case_insensitive>>

\* Parser::ClearOptions: option_map.clear()
ClearOptions ==
    /\ option_map' = EmptyMap
    /\ last' = Call("ClearOptions", NoError, Installed, Installed, EmptyMap,
                    <<>>, <<>>)
    /\ calls' = 0
    /\ used' = 0
    /\ UNCHANGED <<options, short_flags, long_flags, option_value_separator,
                   case_insensitive>>

\* A faulty return that restores the option_map the call found when it fails
ParseArgumentsReturnRestoring(arguments, tokens, r) ==
    /\ calls < MaxParses
    /\ used + tokens <= MaxTokens
    /\ option_map' = IF r.err # NoError THEN option_map ELSE r.map
    /\ last' = Call("ParseArguments", r.err, Installed, Installed,
                    option_map, arguments, r.log)
    /\ calls' = calls + 1
    /\ used' = used + tokens
    /\ UNCHANGED <<options, short_flags, long_flags,
                   option_value_separator, case_insensitive>>

\* Parser::ParseArguments, all three overloads: argc < 1 is the empty vector
\* The state the call leaves when the loop over the tokens has ended in r
ParseArgumentsReturn(arguments, tokens, r) ==
    /\ calls < MaxParses
    /\ used + tokens <= MaxTokens
    /\ option_map' = r.map
    /\ last' = Call("ParseArguments", r.err, Installed, Installed,
                    option_map, arguments, r.log)
    /\ calls' = calls + 1
    /\ used' = used + tokens
    /\ UNCHANGED <<options, short_flags, long_flags,
                   option_value_separator, case_insensitive>>

ParseArguments(arguments) ==
    ParseArgumentsReturn(arguments,
                         IF Len(arguments) = 0 THEN 0 ELSE Len(arguments) - 1,
                         ParseArgumentsFrom(option_map, arguments))

(***************************************************************************)
(* The inputs the exploration draws from.                                  *)
(***************************************************************************)
Option(name, short_option, long_option, multiple_allowed, parameter_expected) ==
    [name |-> name, short_option |-> short_option, long_option |-> long_option,
     multiple_allowed |-> multiple_allowed,
     parameter_expected |-> parameter_expected]

\* The descriptors of the tests and of the header's example
all == Option(<<"a","l","l">>, <<"a">>, <<"a","l","l">>, FALSE, FALSE)
pattern ==
    Option(<<"p","a","t","t","e","r","n">>, <<"p">>,
           <<"p","a","t","t","e","r","n">>, TRUE, TRUE)
color ==
    Option(<<"c","o","l","o","r">>, <<"c">>, <<"c","o","l","o","r">>,
           FALSE, TRUE)
verbose ==
    Option(<<"v","e","r","b","o","s","e">>, <<"v">>,
           <<"v","e","r","b","o","s","e">>, TRUE, FALSE)
\* A descriptor without a name, as in TestOptionsSpecEmptyIdentifier
unnamed ==
    Option(<<>>, <<"v">>, <<"v","e","r","b","o","s","e">>, TRUE, FALSE)

\* The defaults of the constructor and of SetOptions: {"-"}, {"--"}, "=", false
DefaultConfig(o) == Config(o, << <<"-">> >>, << <<"-","-">> >>, <<"=">>, FALSE)

CommandConfig == DefaultConfig(<<all, pattern, color, verbose>>)
\* Parser::Parser() : Parser(Options{})
EmptyConfig == DefaultConfig(<<>>)
EmptyIdentifierConfig == DefaultConfig(<<all, unnamed>>)
DuplicateIdentifierConfig == DefaultConfig(<<verbose, [pattern EXCEPT !.name = verbose.name]>>)
\* SetOptions(options_spec, {"-"}, {"-"}) of TestOptionsSpecFlagConflict
FlagConflictConfig ==
    Config(<<all, pattern, color, verbose>>, << <<"-">> >>, << <<"-">> >>,
           <<"=">>, FALSE)

Configs ==
    {CommandConfig, EmptyConfig, EmptyIdentifierConfig,
     DuplicateIdentifierConfig, FlagConflictConfig}

\* argv[0]
Command == <<"l","s">>

Tokens ==
    { <<>>, <<"-">>, <<"f">>,
      <<"-","a">>, <<"-","p">>, <<"-","v">>, <<"-","a","p">>,
      <<"-","-","c","o","l","o","r">>,
      <<"-","-","c","o","l","o","r","=","r">> }

\* An argument vector: the command name and the tokens after it
Arguments(tokens) == <<Command>> \o tokens

\* The specifications and flag sets drawn for the validator
InstallNames == { <<>>, <<"n">>, <<"m">> }
InstallShorts == { <<>>, <<"a">>, <<"b">>, <<"a","b">> }
InstallLongs == { <<>>, <<"l">>, <<"k">> }
InstallOptions ==
    { Option(n, s, l, FALSE, FALSE) :
        n \in InstallNames, s \in InstallShorts, l \in InstallLongs }
InstallFlags ==
    { << << <<"-">> >>, << <<"-","-">> >> >>,
      << << <<"-">> >>, << <<"-">> >> >>,
      << << <<"-">>, <<"/">> >>, << <<"-","-">>, <<"/">> >> >>,
      << << <<"-">>, <<"/">> >>, << <<"-","-">> >> >> }
InstallConfigs(bound) ==
    { Config(o, f[1], f[2], <<"=">>, FALSE) :
        o \in UNION { [1..n -> InstallOptions] : n \in 0..bound },
        f \in InstallFlags }

(***************************************************************************)
(* The parser in use: constructed from any configuration, then any         *)
(* sequence of SetOptions, ClearOptions and ParseArguments calls.          *)
(***************************************************************************)
Init == \E config \in Configs : Construct(config)

Next ==
    \/ \E config \in Configs : SetOptions(config)
    \/ ClearOptions
    \/ /\ calls < MaxParses
       /\ \/ ParseArguments(<<>>)
          \/ \E n \in 0..(MaxTokens - used) :
                 \E tokens \in [1..n -> Tokens] :
                     ParseArguments(Arguments(tokens))

Spec == Init /\ [][Next]_vars

(***************************************************************************)
(* The validator on its own: a default-constructed parser on which one     *)
(* SetOptions call installs a drawn specification and flag sets.           *)
(***************************************************************************)
InitInstall == Construct(EmptyConfig)

NextInstall ==
    /\ last.op = "Parser"
    /\ \E config \in InstallConfigs(MaxOptions) : SetOptions(config)

SpecInstall == InitInstall /\ [][NextInstall]_vars

(***************************************************************************)
(* One call on its own: a parser constructed from any configuration, on    *)
(* which one ParseArguments call is made with tokens of every shape: plain *)
(* strings, bare flags, bundles with a value option in the middle or an    *)
(* unknown character, long options with a value, with trailing characters  *)
(* and cut short.                                                          *)
(***************************************************************************)
ParseTokens ==
    { <<>>, <<"-">>, <<"-","-">>, <<"f">>,
      <<"-","a">>, <<"-","p">>, <<"-","v">>,
      <<"-","a","p">>, <<"-","p","a">>, <<"-","a","v">>, <<"-","a","x">>,
      <<"-","-","c","o","l","o","r">>,
      <<"-","-","c","o","l","o","r","=","r">>,
      <<"-","-","p","a","t","t","e","r","n","=","r">>,
      <<"-","-","c","o","l","o","r","x">>,
      <<"-","-","c","o","l","o">> }

InitParse == \E config \in Configs : Construct(config)

NextParse ==
    /\ last.op = "Parser"
    /\ \/ ParseArguments(<<>>)
       \/ \E n \in 0..MaxTokens :
              \E tokens \in [1..n -> ParseTokens] :
                  ParseArguments(Arguments(tokens))

SpecParse == InitParse /\ [][NextParse]_vars

(***************************************************************************)
(* Recorded numbers: a parser constructed with the specification of the    *)
(* value tests, on which one ParseArguments call records strings that the  *)
(* numeric retrievals are then tried on.                                   *)
(***************************************************************************)
\* { "size", "s", "min-size", false, true } of TestCommand
size ==
    Option(<<"s","i","z","e">>, <<"s">>,
           <<"m","i","n","-","s","i","z","e">>, FALSE, TRUE)

ValueConfig == DefaultConfig(<<all, pattern, size>>)

ValueTokens ==
    { <<"-","s">>, <<"-","p">>, <<"f">>,
      <<"2","0","0">>, <<"9","9">>, <<"0">>, <<"-","1">>, <<"7","x">>,
      <<"-","-","p","a","t","t","e","r","n","=","9","9">> }

InitValues == Construct(ValueConfig)

NextValues ==
    /\ last.op = "Parser"
    /\ \E n \in 1..MaxTokens :
           \E tokens \in [1..n -> ValueTokens] :
               ParseArguments(Arguments(tokens))

SpecValues == InitValues /\ [][NextValues]_vars

(***************************************************************************)
(* The command name: ParseArguments calls whose first element is drawn     *)
(* from strings that look like options as well, on a parser that may hold  *)
(* the entries of an earlier call.                                         *)
(***************************************************************************)
Commands == { Command, <<>>, <<"-","a">>, <<"-","x">>,
              <<"-","-","c","o","l","o","r","x">> }

CommandTokens == { <<"f">>, <<"-","a">>, <<"-","p">>, <<"-","v">> }

InitCommand == Construct(CommandConfig)

NextCommand ==
    /\ calls < MaxParses
    /\ \/ ParseArguments(<<>>)
       \/ \E command \in Commands :
              \E n \in 0..(MaxTokens - used) :
                  \E tokens \in [1..n -> CommandTokens] :
                      ParseArguments(<<command>> \o tokens)

SpecCommand == InitCommand /\ [][NextCommand]_vars

(***************************************************************************)
(* Letter case: a parser constructed with the case_insensitive toggle set  *)
(* or clear and with flags and a separator made of letters, so that the    *)
(* case of every part of a token can differ from the configured one.       *)
(***************************************************************************)
\* A descriptor whose short and long options have capitals
Verbose ==
    Option(<<"v","e","r","b","o","s","e">>, <<"V">>,
           <<"V","e","r","b","o","s","e">>, TRUE, FALSE)

CaseConfigs ==
    { Config(<<all, color, Verbose>>, << <<"o">> >>, << <<"l","-">> >>,
             <<"e","q">>, insensitive) : insensitive \in BOOLEAN }

CaseTokens ==
    { <<"f">>,
      <<"o","a">>, <<"o","A">>, <<"O","a">>, <<"o","V">>, <<"o","v">>,
      <<"l","-","a","l","l">>, <<"l","-","A","L","L">>,
      <<"L","-","a","l","l">>,
      <<"l","-","c","o","l","o","r","e","q","r">>,
      <<"l","-","c","o","l","o","r","E","Q","r">>,
      <<"l","-","C","O","L","O","R","e","q","r">>,
      <<"l","-","v","e","r","b","o","s","e">> }

InitCase == \E config \in CaseConfigs : Construct(config)

NextCase ==
    /\ last.op = "Parser"
    /\ \E n \in 1..MaxTokens :
           \E tokens \in [1..n -> CaseTokens] :
               ParseArguments(Arguments(tokens))

SpecCase == InitCase /\ [][NextCase]_vars

(***************************************************************************)
(* Declaration order: a parser constructed with descriptors whose long     *)
(* options begin with or contain one another, in either order.             *)
(***************************************************************************)
foo == Option(<<"f","o","o">>, <<"f">>, <<"f","o","o">>, TRUE, TRUE)
foobar ==
    Option(<<"f","o","o","b","a","r">>, <<"b">>, <<"f","o","o","b","a","r">>,
           TRUE, FALSE)
\* A long option that contains the separator
foo_b ==
    Option(<<"f","o","o","_","b">>, <<"e">>, <<"f","o","o","=","b">>,
           TRUE, FALSE)
\* A long option that differs from foo's by case only
FOO == Option(<<"F","O","O">>, <<"F">>, <<"F","O","O">>, TRUE, FALSE)

OrderConfigs ==
    { DefaultConfig(o) :
        o \in { <<foo, foobar>>, <<foobar, foo>>, <<foo, foo_b>>,
                <<foo_b, foo>>, <<foo, foobar, foo_b>>,
                <<[foo EXCEPT !.parameter_expected = FALSE], foo_b>> } }
        \cup { Config(o, << <<"-">> >>, << <<"-","-">> >>, <<"=">>, TRUE) :
                 o \in { <<foo, FOO>>, <<FOO, foo>> } }

OrderTokens ==
    { <<"x">>,
      <<"-","-","f","o","o">>, <<"-","-","F","O","O">>,
      <<"-","-","f","o","o","b","a","r">>,
      <<"-","-","f","o","o","b">>,
      <<"-","-","f","o","o","=","b">>,
      <<"-","-","f","o","o","=","b","a","r">> }

InitOrder == \E config \in OrderConfigs : Construct(config)

NextOrder ==
    /\ last.op = "Parser"
    /\ \E n \in 1..MaxTokens :
           \E tokens \in [1..n -> OrderTokens] :
               ParseArguments(Arguments(tokens))

SpecOrder == InitOrder /\ [][NextOrder]_vars

(***************************************************************************)
(* The value separator: a parser on which one ParseArguments call is made  *)
(* with long options that go on with the separator: with a value after it  *)
(* and with none, for descriptors that expect a value and that do not,     *)
(* with a separator of one and of two characters.                          *)
(***************************************************************************)
SeparatorConfigs ==
    { CommandConfig,
      DefaultConfig(<<[foo EXCEPT !.parameter_expected = FALSE], foo_b>>),
      DefaultConfig(<<foo_b, foo>>),
      Config(<<all, color>>, << <<"-">> >>, << <<"-","-">> >>, <<"=">>, TRUE),
      Config(<<all, color>>, << <<"-">> >>, << <<"-","-">> >>, <<":","=">>,
             FALSE) }

SeparatorTokens ==
    { <<"f">>,
      <<"-","-","a","l","l">>,
      <<"-","-","a","l","l","=">>,
      <<"-","-","a","l","l","=","r">>,
      <<"-","-","c","o","l","o","r","=">>,
      <<"-","-","c","o","l","o","r","=","r">>,
      <<"-","-","C","O","L","O","R","=">>,
      <<"-","-","c","o","l","o","=">>,
      <<"-","-","f","o","o","=">>,
      <<"-","-","f","o","o","=","b">>,
      <<"-","-","c","o","l","o","r",":","=">>,
      <<"-","-","c","o","l","o","r",":">> }

InitSeparator == \E config \in SeparatorConfigs : Construct(config)

NextSeparator ==
    /\ last.op = "Parser"
    /\ \E n \in 1..MaxTokens :
           \E tokens \in [1..n -> SeparatorTokens] :
               ParseArguments(Arguments(tokens))

SpecSeparator == InitSeparator /\ [][NextSeparator]_vars

(***************************************************************************)

(* A second instance: ParseArguments calls in which an option that takes a *)
(* value and allows one instance occurs again, with a value and without    *)
(* one, as a long option, alone and inside a bundle.                       *)
(***************************************************************************)
AgainConfigs == { CommandConfig, ValueConfig }

AgainTokens ==
    { <<"r">>, <<"-","a">>,
      <<"-","-","c","o","l","o","r","=","r">>,
      <<"-","-","c","o","l","o","r">>,
      <<"-","c">>, <<"-","c","a">>, <<"-","a","c">>,
      <<"-","s">>, <<"-","s","a">> }

InitAgain == \E config \in AgainConfigs : Construct(config)

NextAgain ==
    /\ calls < MaxParses
    /\ \E n \in 1..(MaxTokens - used) :
           \E tokens \in [1..n -> AgainTokens] :
               ParseArguments(Arguments(tokens))

SpecAgain == InitAgain /\ [][NextAgain]_vars

(***************************************************************************)

(* Letter case in the specification: a default-constructed parser on which *)
(* SetOptions installs descriptors whose short and long options differ by  *)
(* case only, or not at all, with the case_insensitive toggle set or       *)
(* clear, followed by one ParseArguments call.                             *)
(***************************************************************************)
FoldConfigs ==
    { Config(o, << <<"-">> >>, << <<"-","-">> >>, <<"=">>, insensitive) :
        o \in { <<foo, FOO>>, <<FOO, foo>>, <<foo, foobar>>,
                <<foo, [FOO EXCEPT !.short_option = <<"f">>]>>,
                <<FOO, [foo EXCEPT !.long_option = <<"F","O","O">>]>> },
        insensitive \in BOOLEAN }

FoldTokens ==
    { <<"x">>, <<"-","f">>, <<"-","F">>, <<"-","F","f">>,
      <<"-","-","f","o","o">>, <<"-","-","F","O","O">>,
      <<"-","-","F","o","o","=","b">> }

InitFold == Construct(EmptyConfig)

NextFold ==
    \/ /\ last.op = "Parser"
       /\ \E config \in FoldConfigs : SetOptions(config)
    \/ /\ last.op = "SetOptions"
       /\ \E n \in 1..MaxTokens :
              \E tokens \in [1..n -> FoldTokens] :
                  ParseArguments(Arguments(tokens))

SpecFold == InitFold /\ [][NextFold]_vars

(***************************************************************************)

(* The value separator in short options: a parser on which one             *)
(* ParseArguments call is made with option strings that contain the        *)
(* separator, with and without a descriptor whose short option is the      *)
(* separator character.                                                    *)
(***************************************************************************)
\* A descriptor whose short option is the default value separator
equals == Option(<<"e","q">>, <<"=">>, <<>>, TRUE, FALSE)

ShortConfigs == { ValueConfig, DefaultConfig(<<all, size, equals>>) }

ShortTokens ==
    { <<"2","0">>, <<"-","a">>, <<"-","s">>, <<"-","=">>,
      <<"-","s","=","2","0">>, <<"-","a","=","x">>, <<"-","a","=">>,
      <<"-","a","s","=","2","0">>,
      <<"-","-","m","i","n","-","s","i","z","e","=","2","0">> }

InitShort == \E config \in ShortConfigs : Construct(config)

NextShort ==
    /\ last.op = "Parser"
    /\ \E n \in 1..MaxTokens :
           \E tokens \in [1..n -> ShortTokens] :
               ParseArguments(Arguments(tokens))

SpecShort == InitShort /\ [][NextShort]_vars

(***************************************************************************)

(* The flag sets: a parser constructed with one of several pairs of short  *)
(* and long flag vectors, among them flags that begin with other flags,    *)
(* on which one ParseArguments call is made.                               *)
(***************************************************************************)
\* Pairs of short_flags and long_flags
ParseFlags ==
    { << << <<"-">> >>, << <<"-","-">> >> >>,
      << << <<"-">>, <<"/">> >>, << <<"-","-">> >> >>,
      << << <<"-","-">> >>, << <<"-">> >> >>,
      << << <<"-">>, <<"-","-">> >>, << <<"/">> >> >>,
      << << <<"/">> >>, << <<"-","-">>, <<"-">> >> >>,
      << << <<"/">> >>, << <<"-">>, <<"-","-">> >> >>,
      << << <<"-">> >>, << <<"-">> >> >> }

FlagConfigs ==
    { Config(<<all, pattern>>, f[1], f[2], <<"=">>, FALSE) : f \in ParseFlags }

FlagTokens ==
    { <<"-">>, <<"-","-">>, <<"/">>, <<"f">>,
      <<"-","a">>, <<"/","a">>, <<"-","p">>, <<"-","-","a","l","l">>,
      <<"-","-","a">> }

InitFlags == \E config \in FlagConfigs : Construct(config)

NextFlags ==
    /\ last.op = "Parser"
    /\ \E n \in 1..MaxTokens :
           \E tokens \in [1..n -> FlagTokens] :
               ParseArguments(Arguments(tokens))

SpecFlags == InitFlags /\ [][NextFlags]_vars

(***************************************************************************)
(* The queries the properties are stated with.                             *)
(***************************************************************************)
\* Parser::OptionGiven
OptionGiven(option_name) == option_name \in DOMAIN option_map

\* Parser::GetOptionCount
GetOptionCount(option_name) ==
    IF option_name \notin DOMAIN option_map
    THEN 0
    ELSE Len(option_map[option_name])

(***************************************************************************)
(* The retrieval functions.  A call returns a record: err is the           *)
(* OptionsError of the OptionsException thrown, NoError when none is, and  *)
(* value is what is returned.                                              *)
(***************************************************************************)
Returned(value) == [err |-> NoError, value |-> value]
Thrown(error) == [err |-> error, value |-> <<>>]

\* A faulty lookup that reads option_map[option_name], absent or not
FindOptionStringsOrEmpty(option_name) ==
    Returned(ValuesOf(option_map, option_name))

\* Parser::FindOptionStrings
FindOptionStrings(option_name) ==
    IF option_name \notin DOMAIN option_map
    THEN Thrown("OptionNotGiven")
    ELSE Returned(option_map[option_name])

\* A faulty front() that takes the last element
FrontOfBack(found) ==
    IF found.err # NoError THEN found
    ELSE Returned(found.value[Len(found.value)])

\* return FindOptionStrings(option_name).front();
FrontOf(found) ==
    IF found.err # NoError THEN found ELSE Returned(found.value[1])

\* Parser::GetOptionString
GetOptionString(option_name) == FrontOf(FindOptionStrings(option_name))

\* Parser::GetOptionStrings
GetOptionStrings(option_name) == FindOptionStrings(option_name)

\* std::stoi: strtol in base 10.  Leading white space is skipped, one sign
\* is accepted, the digits that follow are converted and what comes after
\* them is ignored; std::invalid_argument without a digit, std::out_of_range
\* beyond INT_MAX.  (The magnitude of INT_MIN is reported out of range here;
\* it lies outside every range of short, so the caller sees the same.)
INT_MAX == 2147483647
SHRT_MIN == 0 - 32768
SHRT_MAX == 32767

DecimalDigits == <<"0", "1", "2", "3", "4", "5", "6", "7", "8", "9">>
isdigit(c) == \E d \in 1..10 : DecimalDigits[d] = c
DigitValue(c) == (CHOOSE d \in 1..10 : DecimalDigits[d] = c) - 1
isspace(c) == c \in {" ", "\t", "\n", "\r", "\f"}

RECURSIVE SkipSpace(_, _)
SkipSpace(value, k) ==
    IF k <= Len(value) /\ isspace(value[k])
    THEN SkipSpace(value, k + 1)
    ELSE k

\* The digits from position k on: how many, their value, and whether the
\* value passed INT_MAX
RECURSIVE DigitsFrom(_, _, _)
DigitsFrom(value, k, so_far) ==
    IF k > Len(value) \/ ~isdigit(value[k])
    THEN so_far
    ELSE IF so_far.overflow
              \/ so_far.value > (INT_MAX - DigitValue(value[k])) \div 10
    THEN DigitsFrom(value, k + 1,
                    [so_far EXCEPT !.count = @ + 1, !.overflow = TRUE])
    ELSE DigitsFrom(value, k + 1,
                    [so_far EXCEPT !.count = @ + 1,
                                   !.value = @ * 10 + DigitValue(value[k])])

StoiOf(negative, digits) ==
    IF digits.count = 0 THEN Thrown("invalid_argument")
    ELSE IF digits.overflow THEN Thrown("out_of_range")
    ELSE Returned(IF negative THEN 0 - digits.value ELSE digits.value)

StoiFrom(value, k) ==
    IF k <= Len(value) /\ value[k] \in {"+", "-"}
    THEN StoiOf(value[k] = "-",
                DigitsFrom(value, k + 1,
                           [count |-> 0, value |-> 0, overflow |-> FALSE]))
    ELSE StoiOf(FALSE,
                DigitsFrom(value, k,
                           [count |-> 0, value |-> 0, overflow |-> FALSE]))

stoi(value) == StoiFrom(value, SkipSpace(value, 1))

\* The converter of GetOptionValues<short> and the range check made on its
\* result: every exception is caught and thrown on as OptionValueError
InRange(converted, min, max) ==
    IF converted.err # NoError THEN Thrown("OptionValueError")
    ELSE IF converted.value < min \/ converted.value > max
    THEN Thrown("OptionValueError")
    ELSE converted

\* The loop over the option strings from position k on
RECURSIVE ConvertFrom(_, _, _, _, _)
ConvertStep(options_strings, k, min, max, option_values, converted) ==
    IF converted.err # NoError
    THEN converted
    ELSE ConvertFrom(options_strings, k + 1, min, max,
                     Append(option_values, converted.value))

ConvertFrom(options_strings, k, min, max, option_values) ==
    IF k > Len(options_strings)
    THEN Returned(option_values)
    ELSE ConvertStep(options_strings, k, min, max, option_values,
                     InRange(stoi(options_strings[k]), min, max))

ConvertAll(found, min, max) ==
    IF found.err # NoError
    THEN found
    ELSE ConvertFrom(found.value, 1, min, max, <<>>)

\* Parser::GetOptionValues<short>
GetOptionValues(option_name, min, max) ==
    ConvertAll(FindOptionStrings(option_name), min, max)

\* Parser::GetOptionValue<short>: option_value = option_values.front()
GetOptionValue(option_name, min, max) ==
    FrontOf(GetOptionValues(option_name, min, max))

\* std::stoul: strtoul in base 10, like std::stoi but a sign is applied to
\* the unsigned long, so that a negative number wraps around below
\* ULONG_MAX + 1.  beyond: the result is above INT_MAX, where the magnitude
\* is no longer counted; value is then 0.  std::out_of_range above
\* ULONG_MAX is one of the cases of beyond.
Converted(value) == [err |-> NoError, value |-> value, beyond |-> FALSE]
Beyond == [err |-> NoError, value |-> 0, beyond |-> TRUE]

StoulOf(negative, digits) ==
    IF digits.count = 0
    THEN [err |-> "invalid_argument", value |-> 0, beyond |-> FALSE]
    ELSE IF digits.overflow THEN Beyond
    ELSE IF negative /\ digits.value > 0 THEN Beyond
    ELSE Converted(digits.value)

StoulFrom(value, k) ==
    IF k <= Len(value) /\ value[k] \in {"+", "-"}
    THEN StoulOf(value[k] = "-",
                 DigitsFrom(value, k + 1,
                            [count |-> 0, value |-> 0, overflow |-> FALSE]))
    ELSE StoulOf(FALSE,
                 DigitsFrom(value, k,
                            [count |-> 0, value |-> 0, overflow |-> FALSE]))

stoul(value) == StoulFrom(value, SkipSpace(value, 1))

\* A faulty range test that refuses the upper bound itself
InRangeUnsignedBelowMax(converted, min, max) ==
    IF converted.err # NoError THEN Thrown("OptionValueError")
    ELSE IF converted.beyond \/ converted.value < min \/ converted.value >= max
    THEN Thrown("OptionValueError")
    ELSE Returned(converted.value)

\* The converter of GetOptionValues<unsigned> and the range check made on
\* its result, for a max of at most INT_MAX:
\* if ((i < min) || (i > max)) throw std::out_of_range
InRangeUnsigned(converted, min, max) ==
    IF converted.err # NoError THEN Thrown("OptionValueError")
    ELSE IF converted.beyond \/ converted.value < min \/ converted.value > max
    THEN Thrown("OptionValueError")
    ELSE Returned(converted.value)

\* A faulty loop that converts the first option string only
ConvertUnsignedFirstOnly(options_strings, k, min, max, option_values) ==
    IF k > Len(options_strings)
    THEN Returned(option_values)
    ELSE IF InRangeUnsigned(stoul(options_strings[k]), min, max).err # NoError
    THEN InRangeUnsigned(stoul(options_strings[k]), min, max)
    ELSE Returned(<<InRangeUnsigned(stoul(options_strings[k]), min, max).value>>)

\* The loop over the option strings from position k on, for unsigned
RECURSIVE ConvertUnsignedFrom(_, _, _, _, _)
ConvertUnsignedStep(options_strings, k, min, max, option_values, converted) ==
    IF converted.err # NoError
    THEN converted
    ELSE ConvertUnsignedFrom(options_strings, k + 1, min, max,
                             Append(option_values, converted.value))

ConvertUnsignedFrom(options_strings, k, min, max, option_values) ==
    IF k > Len(options_strings)
    THEN Returned(option_values)
    ELSE ConvertUnsignedStep(options_strings, k, min, max, option_values,
                             InRangeUnsigned(stoul(options_strings[k]),
                                             min, max))

ConvertAllUnsigned(found, min, max) ==
    IF found.err # NoError
    THEN found
    ELSE ConvertUnsignedFrom(found.value, 1, min, max, <<>>)

\* Parser::GetOptionValues<unsigned>
GetOptionValuesUnsigned(option_name, min, max) ==
    ConvertAllUnsigned(FindOptionStrings(option_name), min, max)

\* Parser::GetOptionValue<unsigned>: option_value = option_values.front()
GetOptionValueUnsigned(option_name, min, max) ==
    FrontOf(GetOptionValuesUnsigned(option_name, min, max))

(***************************************************************************)
(* The queries as calls: OptionGiven looks the name up with                *)
(* option_map.contains and the other five with option_map.find, in         *)
(* GetOptionCount and in FindOptionStrings; none of them is const, so the  *)
(* option_map after the call is what the lookup leaves.                    *)
(***************************************************************************)
\* A faulty lookup with option_map[key], which creates the entry it misses
MapAfterSubscript(map, key) ==
    [name \in DOMAIN map \cup {key} |-> ValuesOf(map, name)]

\* The map after option_map.contains(key) or option_map.find(key)
MapAfterFind(map, key) == map

\* A query called with option_name that ended with err
Query(op, option_name, err) ==
    /\ option_map' = MapAfterFind(option_map, option_name)
    /\ last' = Call(op, err, Installed, Installed, option_map,
                    <<option_name>>, <<>>)
    /\ UNCHANGED <<options, short_flags, long_flags, option_value_separator,
                   case_insensitive, calls, used>>

CallOptionGiven(option_name) == Query("OptionGiven", option_name, NoError)

CallGetOptionCount(option_name) ==
    Query("GetOptionCount", option_name, NoError)

CallGetOptionString(option_name) ==
    Query("GetOptionString", option_name, GetOptionString(option_name).err)

CallGetOptionStrings(option_name) ==
    Query("GetOptionStrings", option_name, GetOptionStrings(option_name).err)

CallGetOptionValue(option_name, min, max) ==
    Query("GetOptionValue", option_name,
          GetOptionValue(option_name, min, max).err)

CallGetOptionValues(option_name, min, max) ==
    Query("GetOptionValues", option_name,
          GetOptionValues(option_name, min, max).err)

\* The names a query is made with: the declared ones, one that is not, and
\* the key of the positional arguments
QueriedNames ==
    {<<>>, <<"s","i","z","e">>} \cup { options[j].name : j \in 1..Len(options) }

QueryTokens == { <<"f">>, <<"9">>, <<"-","a">>, <<"-","p">> }

InitQuery == Construct(CommandConfig)

NextQuery ==
    \/ /\ calls < MaxParses
       /\ \E n \in 1..(MaxTokens - used) :
              \E tokens \in [1..n -> QueryTokens] :
                  ParseArguments(Arguments(tokens))
    \/ \E option_name \in QueriedNames : CallOptionGiven(option_name)
    \/ \E option_name \in QueriedNames : CallGetOptionCount(option_name)
    \/ \E option_name \in QueriedNames : CallGetOptionString(option_name)
    \/ \E option_name \in QueriedNames : CallGetOptionStrings(option_name)
    \/ \E option_name \in QueriedNames :
           \E min \in {SHRT_MIN, 0} :
               CallGetOptionValue(option_name, min, SHRT_MAX)
    \/ \E option_name \in QueriedNames :
           \E min \in {SHRT_MIN, 0} :
               CallGetOptionValues(option_name, min, SHRT_MAX)

SpecQuery == InitQuery /\ [][NextQuery]_vars

(***************************************************************************)

(* Vocabulary of the properties.                                           *)
(***************************************************************************)
Parsed == last.op = "ParseArguments"
Installing == last.op = "SetOptions"

LogIndex == 1..Len(last.log)

\* s is an initial segment of t
IsPrefix(s, t) == Len(s) <= Len(t) /\ SubSeq(t, 1, Len(s)) = s

\* Every name a query can sensibly be made with
KnownNames ==
    {<<>>} \cup DOMAIN option_map
           \cup UNION { { c.options[j].name : j \in 1..Len(c.options) } :
                        c \in Configs }

\* The entry offered the following token: a long option matched exactly or
\* the last character of a short-option bundle
OfferedParameter(e) == e.kind = "option" /\ e.site \in {"long", "short-last"}

\* The token at position i was recognized as an option
RecognizedAt(i) == \E k \in LogIndex : last.log[k].kind = "option"
                                       /\ last.log[k].at = i

\* The token at position i was consumed as the value of the token before it
ConsumedAt(i) ==
    \E k \in LogIndex :
        /\ OfferedParameter(last.log[k])
        /\ last.log[k].at = i - 1
        /\ last.log[k].option.parameter_expected
        /\ last.log[k].outcome = "stored"

\* The tokens from position i on that are neither, in token order
RECURSIVE FreeTokens(_)
FreeTokens(i) ==
    IF i > Len(last.arguments)
    THEN <<>>
    ELSE (IF RecognizedAt(i) \/ ConsumedAt(i) THEN <<>>
                                              ELSE <<last.arguments[i]>>)
         \o FreeTokens(i + 1)

\* The value supplied to the occurrence that entry e stands for
Supplied(e) ==
    IF ~e.option.parameter_expected THEN <<>>
    ELSE IF OfferedParameter(e) THEN last.arguments[e.at + 1]
    ELSE e.value

\* The values supplied to the stored occurrences of the options called name
SuppliedTo(name) ==
    LET occurrences ==
            SelectSeq(last.log,
                      LAMBDA e : e.kind = "option" /\ e.option.name = name
                                 /\ e.outcome = "stored")
    IN  [k \in 1..Len(occurrences) |-> Supplied(occurrences[k])]

\* The number of stores under name among the first k log entries
StoresUpTo(k, name) ==
    Cardinality({ m \in 1..k : last.log[m].outcome = "stored"
                               /\ last.log[m].option.name = name })

\* The value in the option_map that the store of log entry k put there
Recorded(k) ==
    LET name == last.log[k].option.name
    IN  option_map[name][Len(ValuesOf(last.pre_map, name)) + StoresUpTo(k, name)]

\* The stored occurrences of descriptor d in the last call
Occurrences(d) ==
    { k \in LogIndex : last.log[k].kind = "option" /\ last.log[k].option = d
                       /\ last.log[k].outcome = "stored" }

\* The defects of a specification and its flag sets, by kind
SpecificationErrors ==
    {"FlagConflict", "EmptyIdentifierName", "DuplicateIdentifier",
     "DuplicateShortOption", "InvalidShortOption", "DuplicateLongOption"}

HasDefect(config, kind) ==
    LET o == config.options
        I == 1..Len(o)
    IN  CASE kind = "FlagConflict" ->
               \E l \in 1..Len(config.long_flags) :
                   \E f \in 1..Len(config.short_flags) :
                       config.long_flags[l] = config.short_flags[f]
          [] kind = "EmptyIdentifierName" -> \E i \in I : o[i].name = <<>>
          [] kind = "DuplicateIdentifier" ->
               \E i, j \in I : i < j /\ o[i].name = o[j].name
          [] kind = "DuplicateShortOption" ->
               \E i, j \in I : /\ i < j
                               /\ o[i].short_option # <<>>
                               /\ o[i].short_option = o[j].short_option
          [] kind = "InvalidShortOption" ->
               \E i \in I : Len(o[i].short_option) > 1
          [] kind = "DuplicateLongOption" ->
               \E i, j \in I : /\ i < j
                               /\ o[i].long_option # <<>>
                               /\ o[i].long_option = o[j].long_option

Defects(config) == { kind \in SpecificationErrors : HasDefect(config, kind) }

\* Every name, every non-empty short form and every non-empty long form is
\* unique, and no string is in both flag sets
AllUnique(config) ==
    Defects(config) \cap {"FlagConflict", "DuplicateIdentifier",
                          "DuplicateShortOption", "DuplicateLongOption"} = {}

(***************************************************************************)
(* C1.  After a ParseArguments call that completes without error on a      *)
(* parser whose option_map was empty, every option name maps to exactly    *)
(* the values supplied to that option's occurrences, in token order, and   *)
(* the key "" maps to exactly the tokens that were neither recognized as   *)
(* options nor consumed as option values, in token order.                  *)
(***************************************************************************)
C1_ResultIsWhatWasSupplied ==
    (Parsed /\ last.err = NoError /\ last.pre_map = EmptyMap) =>
        /\ \A j \in 1..Len(options) :
               ValuesOf(option_map, options[j].name)
                   = SuppliedTo(options[j].name)
        /\ ValuesOf(option_map, <<>>) = FreeTokens(2)

(***************************************************************************)
(* C2.  As claimed: each ParseArguments call starts from an empty          *)
(* option_map, so after the second of two consecutive calls the map holds  *)
(* only what the tokens of the second call produce.  A second call with    *)
(* nothing to parse is left out: it returns before it does anything.       *)
(***************************************************************************)
C2_ParseStartsEmpty ==
    (Parsed /\ calls = 2 /\ Len(last.arguments) > 1) =>
        option_map = ParseArgumentsFrom(EmptyMap, last.arguments).map

(***************************************************************************)
(* C2, amended.  ParseArguments does not clear the option_map: after a     *)
(* call, every name that had an entry before it still has one, and its     *)
(* earlier values are still there, in place, before whatever the call      *)
(* appended.                                                               *)
(***************************************************************************)
C2_ParseAccumulates ==
    Parsed =>
        \A name \in DOMAIN last.pre_map :
            /\ OptionGiven(name)
            /\ IsPrefix(last.pre_map[name], option_map[name])

C2_Witness ==
    /\ Parsed /\ calls = 2 /\ last.err = NoError
    /\ last.pre_map # EmptyMap
    /\ option_map # last.pre_map

(***************************************************************************)
(* C3.  After any SetOptions call, whether it returns or throws, the       *)
(* option_map is empty: OptionGiven is false and GetOptionCount is 0 for   *)
(* every name, the key "" included.                                        *)
(***************************************************************************)
C3_SetOptionsClears ==
    Installing =>
        \A name \in KnownNames : ~OptionGiven(name) /\ GetOptionCount(name) = 0

C3_Witness == Installing /\ last.pre_entries /\ last.err # NoError

(***************************************************************************)
(* C4.  SetOptions throws a SpecificationException whenever the            *)
(* specification or the flag sets have a defect, and when the defects      *)
(* present are all of one kind the exception carries that kind.            *)
(***************************************************************************)
C4_DefectsAreReported ==
    Installing =>
        /\ Defects(last.given) # {} => last.err \in SpecificationErrors
        /\ Cardinality(Defects(last.given)) = 1 => last.err \in Defects(last.given)

C4_Witness ==
    /\ Installing
    /\ Defects(last.given) = {"InvalidShortOption"}
    /\ last.err = "InvalidShortOption"

(***************************************************************************)
(* C5.  As claimed: for a specification of at least one descriptor in      *)
(* which every name, non-empty short form and non-empty long form is       *)
(* unique, and flag sets that share no string, SetOptions succeeds.        *)
(***************************************************************************)
C5_UniqueIsValid ==
    (Installing /\ Len(last.given.options) >= 1 /\ AllUnique(last.given)) =>
        last.err = NoError

(***************************************************************************)
(* C5, amended.  ... SetOptions succeeds provided also that every name is  *)
(* non-empty and every short form has at most one character.               *)
(***************************************************************************)
C5_UniqueNamedShortIsValid ==
    (/\ Installing /\ Len(last.given.options) >= 1 /\ AllUnique(last.given)
     /\ \A i \in 1..Len(last.given.options) :
            /\ last.given.options[i].name # <<>>
            /\ Len(last.given.options[i].short_option) <= 1) =>
        last.err = NoError

C5_Witness ==
    /\ Installing /\ Len(last.given.options) = 2 /\ Defects(last.given) = {}
    /\ last.given.options[1].long_option = <<>>
    /\ last.given.options[2].long_option = <<>>
    /\ last.err = NoError

(***************************************************************************)
(* C6.  The constructor validates as SetOptions does: constructing a       *)
(* Parser from a specification or flag sets with a defect throws a         *)
(* SpecificationException.                                                 *)
(***************************************************************************)
C6_ConstructorValidates ==
    (last.op = "Parser" /\ Defects(last.given) # {}) =>
        last.err \in SpecificationErrors

(***************************************************************************)
(* C7.  Installation is all-or-nothing: when SetOptions throws, the        *)
(* specification, flag sets, separator and case toggle in effect before    *)
(* the call are still in effect.                                           *)
(***************************************************************************)
C7_FailedInstallChangesNothing ==
    (Installing /\ last.err # NoError) => Installed = last.pre_config

(***************************************************************************)
(* C8.  An occurrence of a descriptor that does not allow multiple         *)
(* instances, met while its name already has an entry, makes               *)
(* ParseArguments fail with MultipleInstances then and there, whichever    *)
(* form it has and wherever its value would come from.                     *)
(***************************************************************************)
C8_SecondInstanceFails ==
    Parsed =>
        \A k \in LogIndex :
            (/\ last.log[k].kind = "option"
             /\ ~last.log[k].option.multiple_allowed
             /\ last.log[k].had) =>
                /\ last.log[k].outcome = "MultipleInstances"
                /\ last.err = "MultipleInstances"
                /\ k = Len(last.log)

C8_Witness ==
    /\ Parsed /\ last.err = "MultipleInstances" /\ last.pre_map = EmptyMap
    /\ last.log[Len(last.log)].site = "long-value"
    /\ last.log[Len(last.log)].at = 4

(***************************************************************************)
(* C9.  For a descriptor that expects no value, every recorded occurrence  *)
(* appends exactly one empty string and never consumes the following       *)
(* token, so GetOptionCount(name) is the number of times the option        *)
(* occurred and every recorded value of such an option is empty.           *)
(***************************************************************************)
C9_FlagCountsOccurrences ==
    (Parsed /\ last.pre_map = EmptyMap) =>
        \A j \in 1..Len(options) :
            ~options[j].parameter_expected =>
                /\ \A k \in Occurrences(options[j]) :
                       /\ Recorded(k) = <<>>
                       /\ (/\ OfferedParameter(last.log[k])
                           /\ last.log[k].at < Len(last.arguments)) =>
                              \E m \in LogIndex :
                                  last.log[m].at = last.log[k].at + 1
                /\ GetOptionCount(options[j].name)
                       = Cardinality(Occurrences(options[j]))
                /\ \A n \in 1..GetOptionCount(options[j].name) :
                       option_map[options[j].name][n] = <<>>

(***************************************************************************)
(* C10.  As claimed: when a long option matched exactly, or the last       *)
(* character of a short-option bundle, belongs to a descriptor that        *)
(* expects a value and a following token exists, that token is recorded    *)
(* verbatim as the option's value and is skipped.                          *)
(***************************************************************************)
C10_FollowingTokenIsValue ==
    Parsed =>
        \A k \in LogIndex :
            (/\ OfferedParameter(last.log[k])
             /\ last.log[k].option.parameter_expected
             /\ last.log[k].at < Len(last.arguments)) =>
                /\ last.log[k].outcome = "stored"
                /\ Recorded(k) = last.arguments[last.log[k].at + 1]
                /\ \A m \in LogIndex : last.log[m].at # last.log[k].at + 1

(***************************************************************************)
(* C10, amended.  ... provided the occurrence is not refused with          *)
(* MultipleInstances, that token is recorded verbatim as the option's      *)
(* value, whatever it looks like, and is skipped.                          *)
(***************************************************************************)
C10_FollowingTokenIsValueUnlessRefused ==
    Parsed =>
        \A k \in LogIndex :
            (/\ OfferedParameter(last.log[k])
             /\ last.log[k].option.parameter_expected
             /\ last.log[k].at < Len(last.arguments)
             /\ last.log[k].outcome # "MultipleInstances") =>
                /\ last.log[k].outcome = "stored"
                /\ Recorded(k) = last.arguments[last.log[k].at + 1]
                /\ \A m \in LogIndex : last.log[m].at # last.log[k].at + 1

C10_Witness ==
    /\ Parsed /\ last.err = NoError /\ Len(last.arguments) = 4
    /\ OfferedParameter(last.log[1])
    /\ last.log[1].outcome = "stored"
    /\ last.arguments[3] = <<"-","a">>
    /\ Recorded(1) = <<"-","a">>
    /\ ~OptionGiven(all.name)

(***************************************************************************)
(* Vocabulary for the properties of single tokens.                         *)
(***************************************************************************)
\* Option names compare equal, up to case when the parser ignores case
SameName(a, b) == a = b \/ (case_insensitive /\ Uppercase(a) = Uppercase(b))

\* The token begins with a configured long flag; if not, with a short flag
LongToken(t) == \E f \in 1..Len(long_flags) : IsPrefix(long_flags[f], t)
ShortToken(t) ==
    ~LongToken(t) /\ \E f \in 1..Len(short_flags) : IsPrefix(short_flags[f], t)

\* t without its first n characters
Without(t, n) == SubSeq(t, n + 1, Len(t))

\* The token is a long flag followed by exactly the long form of d
LongFormToken(d, t) ==
    /\ d.long_option # <<>>
    /\ \E f \in 1..Len(long_flags) :
           /\ IsPrefix(long_flags[f], t)
           /\ SameName(Without(t, Len(long_flags[f])), d.long_option)

\* The token is a short-option bundle whose last character is d's short form
BundleEndingWith(d, t) ==
    /\ d.short_option # <<>>
    /\ ShortToken(t)
    /\ \E f \in 1..Len(short_flags) :
           /\ IsPrefix(short_flags[f], t)
           /\ Len(t) > Len(short_flags[f])
           /\ SameName(<<t[Len(t)]>>, d.short_option)

\* The call got as far as the token at position i
TokenReached(i) == \E k \in LogIndex : last.log[k].at = i

\* name had an entry when the call came to the token at position i
GivenBefore(name, i) ==
    \/ name \in DOMAIN last.pre_map
    \/ \E k \in LogIndex : /\ last.log[k].at < i
                           /\ last.log[k].outcome = "stored"
                           /\ last.log[k].option.name = name

LastPosition == Len(last.arguments)

(***************************************************************************)
(* C11.  As claimed: when the call reaches a last token that is a long     *)
(* option exactly matching, or a bundle whose last character matches, a    *)
(* descriptor that expects a value and was not given before, the call      *)
(* fails with MissingOptionArgument.  Stated for valid specifications.     *)
(***************************************************************************)
C11_LastTokenFailsMissing ==
    (Parsed /\ LastPosition >= 2 /\ Defects(Installed) = {}
            /\ TokenReached(LastPosition)) =>
        \A j \in 1..Len(options) :
            (/\ options[j].parameter_expected
             /\ ~GivenBefore(options[j].name, LastPosition)
             /\ \/ LongFormToken(options[j], last.arguments[LastPosition])
                \/ BundleEndingWith(options[j], last.arguments[LastPosition]))
                => last.err = "MissingOptionArgument"

(***************************************************************************)
(* C11, amended.  ... and the call reaches that occurrence, every earlier  *)
(* character of the bundle having been recorded: then the occurrence is    *)
(* refused with MissingOptionArgument, which is the error the call ends    *)
(* with, and nothing is recorded for it.                                   *)
(***************************************************************************)
C11_ReachedOccurrenceFailsMissing ==
    Parsed =>
        \A k \in LogIndex :
            (/\ OfferedParameter(last.log[k])
             /\ last.log[k].at = LastPosition
             /\ last.log[k].option.parameter_expected
             /\ ~last.log[k].had) =>
                /\ last.log[k].outcome = "MissingOptionArgument"
                /\ last.err = "MissingOptionArgument"
                /\ k = Len(last.log)
                /\ ~OptionGiven(last.log[k].option.name)

C11_Witness ==
    /\ Parsed /\ last.err = "MissingOptionArgument" /\ LastPosition = 3
    /\ Len(last.log) = 3
    /\ last.log[3].site = "short-last" /\ last.log[3].at = 3
    /\ last.log[2].outcome = "stored" /\ last.log[2].at = 3
    /\ last.log[1].outcome = "stored"
    /\ ~last.log[3].had

\* The token is a long flag, the long form of d, the separator and then v
LongValueToken(d, t, v) ==
    /\ d.long_option # <<>>
    /\ \E f \in 1..Len(long_flags) :
           /\ Len(t) = Len(long_flags[f]) + Len(d.long_option)
                           + Len(option_value_separator) + Len(v)
           /\ IsPrefix(long_flags[f], t)
           /\ SameName(SubSeq(t, Len(long_flags[f]) + 1,
                              Len(long_flags[f]) + Len(d.long_option)),
                       d.long_option)
           /\ IsPrefix(option_value_separator,
                       Without(t, Len(long_flags[f]) + Len(d.long_option)))
           /\ v = Without(t, Len(t) - Len(v))

\* The final parts of a token: what can follow the separator
Endings(t) == { Without(t, n) : n \in 0..Len(t) }

\* The token at position i, an occurrence of d, was recorded with value v
\* and the call went on to the token after it, if there is one
RecordedAlone(i, d, v) ==
    /\ \E k \in LogIndex : /\ last.log[k].at = i
                           /\ last.log[k].option = d
                           /\ last.log[k].outcome = "stored"
                           /\ Recorded(k) = v
    /\ Cardinality({ k \in LogIndex : last.log[k].at = i }) = 1
    /\ i < LastPosition => TokenReached(i + 1)

(***************************************************************************)
(* C12.  As claimed: a long-option token flag + long form + separator + V  *)
(* with V not empty, for a descriptor that expects a value, records V as   *)
(* the value of that option, and the following token is processed on its   *)
(* own as the next token.  Stated for valid specifications.                *)
(***************************************************************************)
C12_InlineValueRecorded ==
    (Parsed /\ Defects(Installed) = {}) =>
        \A i \in 2..LastPosition : \A j \in 1..Len(options) :
            \A v \in Endings(last.arguments[i]) \ {<<>>} :
                (/\ TokenReached(i)
                 /\ options[j].parameter_expected
                 /\ LongValueToken(options[j], last.arguments[i], v)) =>
                    RecordedAlone(i, options[j], v)

(***************************************************************************)
(* C12, amended.  ... provided the occurrence is not refused with          *)
(* MultipleInstances, that is, the descriptor allows multiple instances or *)
(* its name has no entry yet.                                              *)
(***************************************************************************)
C12_InlineValueRecordedUnlessRefused ==
    Parsed =>
        \A i \in 2..LastPosition : \A j \in 1..Len(options) :
            \A v \in Endings(last.arguments[i]) \ {<<>>} :
                (/\ TokenReached(i)
                 /\ options[j].parameter_expected
                 /\ LongValueToken(options[j], last.arguments[i], v)
                 /\ \/ options[j].multiple_allowed
                    \/ ~GivenBefore(options[j].name, i)) =>
                    RecordedAlone(i, options[j], v)

C12_Witness ==
    /\ Parsed /\ LastPosition = 3
    /\ LongValueToken(color, last.arguments[2], <<"r">>)
    /\ last.arguments[3] = <<"-","a">>
    /\ OptionGiven(all.name)
    /\ option_map[color.name] = << <<"r">> >>

\* The bundles a short-option token can be read as: what follows a short flag
Bundles(t) ==
    { Without(t, Len(short_flags[f])) :
        f \in { g \in 1..Len(short_flags) : IsPrefix(short_flags[g], t) } }

\* The descriptors whose short form is the character, and the first of them
ShortMatches(character) ==
    { j \in 1..Len(options) : /\ options[j].short_option # <<>>
                              /\ SameName(options[j].short_option,
                                          <<character>>) }

ShortMatch(character) ==
    CHOOSE j \in ShortMatches(character) :
        \A m \in ShortMatches(character) : j <= m

\* The log entries made for the token at position i, and the first of them
LogAt(i) == { k \in LogIndex : last.log[k].at = i }
FirstAt(i) == CHOOSE k \in LogAt(i) : \A m \in LogAt(i) : k <= m

\* Every character of the bundle matches a descriptor and only the last one
\* may belong to a descriptor that expects a value
WellFormedBundle(c) ==
    /\ Len(c) >= 1
    /\ \A n \in 1..Len(c) : ShortMatches(c[n]) # {}
    /\ \A n \in 1..(Len(c) - 1) :
           ~options[ShortMatch(c[n])].parameter_expected

\* The token at position i, read as bundle c, was recorded: one occurrence
\* per character in order, the last one with the following token as its
\* value, which is then skipped, if and only if its descriptor expects one
BundleRecorded(i, c) ==
    /\ Cardinality(LogAt(i)) = Len(c)
    /\ \A n \in 1..Len(c) :
           LET k == FirstAt(i) + n - 1
               d == options[ShortMatch(c[n])]
           IN  /\ k \in LogAt(i)
               /\ last.log[k].option = d
               /\ last.log[k].outcome = "stored"
               /\ Recorded(k) = IF n = Len(c) /\ d.parameter_expected
                                THEN last.arguments[i + 1]
                                ELSE <<>>
    /\ i < LastPosition =>
           (TokenReached(i + 1)
               <=> ~options[ShortMatch(c[Len(c)])].parameter_expected)

(***************************************************************************)
(* C13.  As claimed: a short-option token whose characters each match a    *)
(* descriptor, the non-last ones descriptors that expect no value, is      *)
(* recorded as one occurrence per character in left-to-right order; the    *)
(* last character's descriptor takes the following token as its value,     *)
(* which is then skipped, if it expects one, and the following token is    *)
(* not consumed if it does not.  Stated for valid specifications and for   *)
(* a last character that has a following token if it expects a value.      *)
(***************************************************************************)
C13_BundleIsRecorded ==
    (Parsed /\ Defects(Installed) = {}) =>
        \A i \in 2..LastPosition :
            (TokenReached(i) /\ ShortToken(last.arguments[i])) =>
                \A c \in Bundles(last.arguments[i]) :
                    (/\ WellFormedBundle(c)
                     /\ options[ShortMatch(c[Len(c)])].parameter_expected
                            => i < LastPosition) =>
                        BundleRecorded(i, c)

\* No character of the bundle at position i meets a name that already has an
\* entry and does not allow multiple instances
NoneRefused(i, c) ==
    \A n \in 1..Len(c) :
        LET d == options[ShortMatch(c[n])]
        IN  \/ d.multiple_allowed
            \/ /\ ~GivenBefore(d.name, i)
               /\ \A m \in 1..(n - 1) :
                      options[ShortMatch(c[m])].name # d.name

(***************************************************************************)
(* C13, amended.  ... provided no character of the bundle is refused with  *)
(* MultipleInstances: each descriptor allows multiple instances or its     *)
(* name has no entry yet when its character is reached.                    *)
(***************************************************************************)
C13_BundleIsRecordedUnlessRefused ==
    Parsed =>
        \A i \in 2..LastPosition :
            (TokenReached(i) /\ ShortToken(last.arguments[i])) =>
                \A c \in Bundles(last.arguments[i]) :
                    (/\ WellFormedBundle(c)
                     /\ NoneRefused(i, c)
                     /\ options[ShortMatch(c[Len(c)])].parameter_expected
                            => i < LastPosition) =>
                        BundleRecorded(i, c)

C13_Witness ==
    /\ Parsed /\ last.err = NoError /\ LastPosition = 4
    /\ last.arguments[2] = <<"-","a","p">>
    /\ last.arguments[3] = <<"-","a","v">>
    /\ last.arguments[4] = <<"-","v">>
    /\ option_map[pattern.name] = << <<"-","a","v">> >>
    /\ GetOptionCount(verbose.name) = 1

\* In the bundle c at position i, character n is reached with every earlier
\* character recorded, and its descriptor, which expects a value, is not
\* refused with MultipleInstances
ValueOptionInside(i, c, n) ==
    /\ n < Len(c)
    /\ WellFormedBundle(SubSeq(c, 1, n - 1) \o <<c[n]>>)
    /\ options[ShortMatch(c[n])].parameter_expected
    /\ NoneRefused(i, SubSeq(c, 1, n))

(***************************************************************************)
(* C14.  As claimed: a value-expecting short option that is not the last   *)
(* character of its bundle is recorded with an empty value, the call does  *)
(* not fail when that character is matched, and the characters after it    *)
(* are then matched.  Stated for valid specifications.                     *)
(***************************************************************************)
C14_InsideValueOptionGetsPlaceholder ==
    (Parsed /\ Defects(Installed) = {}) =>
        \A i \in 2..LastPosition :
            (TokenReached(i) /\ ShortToken(last.arguments[i])) =>
                \A c \in Bundles(last.arguments[i]) : \A n \in 1..Len(c) :
                    ValueOptionInside(i, c, n) =>
                        LET k == FirstAt(i) + n - 1
                        IN  /\ k \in LogAt(i)
                            /\ last.log[k].outcome = "stored"
                            /\ Recorded(k) = <<>>
                            /\ k + 1 \in LogAt(i)

(***************************************************************************)
(* C14, amended.  A value-expecting short option that is not the last      *)
(* character of its bundle, and is not refused with MultipleInstances,     *)
(* makes the call fail with MissingOptionArgument when that character is   *)
(* matched: nothing is recorded for it, and neither the characters after   *)
(* it nor the tokens after the bundle are processed.                       *)
(***************************************************************************)
C14_InsideValueOptionFailsMissing ==
    Parsed =>
        \A i \in 2..LastPosition :
            (TokenReached(i) /\ ShortToken(last.arguments[i])) =>
                \A c \in Bundles(last.arguments[i]) : \A n \in 1..Len(c) :
                    ValueOptionInside(i, c, n) =>
                        LET k == FirstAt(i) + n - 1
                            d == options[ShortMatch(c[n])]
                        IN  /\ k \in LogAt(i)
                            /\ last.log[k].option = d
                            /\ last.log[k].outcome = "MissingOptionArgument"
                            /\ last.err = "MissingOptionArgument"
                            /\ k = Len(last.log)
                            /\ GetOptionCount(d.name)
                                   = Len(ValuesOf(last.pre_map, d.name))
                                         + StoresUpTo(k - 1, d.name)

C14_Witness ==
    /\ Parsed /\ last.err = "MissingOptionArgument" /\ LastPosition = 4
    /\ last.arguments[3] = <<"-","p","a">>
    /\ last.log[Len(last.log)].site = "short-inner"
    /\ last.log[Len(last.log)].at = 3
    /\ last.log[Len(last.log)].option = pattern
    /\ OptionGiven(pattern.name)

\* The configured flags
Flags ==
    { long_flags[f] : f \in 1..Len(long_flags) }
        \cup { short_flags[f] : f \in 1..Len(short_flags) }

\* The flag a token is taken to begin with: the first long flag, in the order
\* configured, that it begins with, and if there is none the first such short
\* flag; the empty string if it begins with no flag
LongFlagsOf(t) == { f \in 1..Len(long_flags) : IsPrefix(long_flags[f], t) }
ShortFlagsOf(t) == { f \in 1..Len(short_flags) : IsPrefix(short_flags[f], t) }

FirstFlag(t) ==
    IF LongFlagsOf(t) # {}
    THEN long_flags[CHOOSE f \in LongFlagsOf(t) :
                        \A g \in LongFlagsOf(t) : f <= g]
    ELSE IF ShortFlagsOf(t) # {}
    THEN short_flags[CHOOSE f \in ShortFlagsOf(t) :
                         \A g \in ShortFlagsOf(t) : f <= g]
    ELSE <<>>

\* The token at position i was recorded as it is under the key "", nothing
\* else was done for it and the call went on to the next token
StoredAsString(i) ==
    /\ Cardinality(LogAt(i)) = 1
    /\ last.log[FirstAt(i)].kind = "string"
    /\ last.log[FirstAt(i)].outcome = "stored"
    /\ OptionGiven(<<>>)
    /\ Recorded(FirstAt(i)) = last.arguments[i]
    /\ i < LastPosition => TokenReached(i + 1)

(***************************************************************************)
(* C15.  As claimed: for every valid pair of flag sets, a token that is    *)
(* exactly a configured long or short flag, and is processed as a token    *)
(* of its own, is stored verbatim under the key "", consumes no following  *)
(* token and raises no error.                                              *)
(***************************************************************************)
C15_BareFlagIsStored ==
    (Parsed /\ ~HasDefect(Installed, "FlagConflict")) =>
        \A i \in 2..LastPosition :
            (TokenReached(i) /\ last.arguments[i] \in Flags) =>
                StoredAsString(i)

(***************************************************************************)
(* C15, amended.  ... provided the token is the flag it is taken to begin  *)
(* with: no long flag configured before it, and for a short flag no long   *)
(* flag at all and no short flag configured before it, is a proper prefix  *)
(* of it.  It holds for conflicting flag sets as well.                     *)
(***************************************************************************)
C15_BareFirstFlagIsStored ==
    Parsed =>
        \A i \in 2..LastPosition :
            (/\ TokenReached(i)
             /\ last.arguments[i] \in Flags
             /\ FirstFlag(last.arguments[i]) = last.arguments[i]) =>
                StoredAsString(i)

C15_Witness ==
    /\ Parsed /\ last.err = NoError /\ LastPosition = 4
    /\ Len(short_flags) = 2
    /\ last.arguments[2] = <<"-","-">>
    /\ last.arguments[3] = <<"/">>
    /\ last.arguments[4] = <<"-">>
    /\ option_map[<<>>] = << <<"-","-">>, <<"/">>, <<"-">> >>

(***************************************************************************)
(* C16.  A token that is empty, or that begins with no configured long or  *)
(* short flag, and that is not consumed as the value of the option before  *)
(* it, is recorded verbatim as one entry under the key "" and does not     *)
(* consume the token after it.                                             *)
(***************************************************************************)
C16_PlainTokenIsStored ==
    Parsed =>
        \A i \in 2..LastPosition :
            (/\ TokenReached(i)
             /\ \/ last.arguments[i] = <<>>
                \/ LongFlagsOf(last.arguments[i]) = {}
                       /\ ShortFlagsOf(last.arguments[i]) = {}) =>
                /\ StoredAsString(i)
                /\ ~ConsumedAt(i)
                /\ ~ConsumedAt(i + 1)

C16_Witness ==
    /\ Parsed /\ last.err = NoError /\ LastPosition = 4
    /\ last.arguments[2] = <<>>
    /\ last.arguments[3] = <<"f">>
    /\ last.arguments[4] = <<"-","a">>
    /\ option_map[<<>>] = << <<>>, <<"f">> >>
    /\ GetOptionCount(all.name) = 1

\* What follows the flag a token is taken to begin with
AfterFlag(t) == Without(t, Len(FirstFlag(t)))

\* The long form of d matches the text after a long flag: it is the text,
\* or the text begins with it and goes on with the value separator
LongFormMatches(d, text) ==
    /\ d.long_option # <<>>
    /\ Len(d.long_option) <= Len(text)
    /\ SameName(SubSeq(text, 1, Len(d.long_option)), d.long_option)
    /\ \/ Len(text) = Len(d.long_option)
       \/ IsPrefix(option_value_separator, Without(text, Len(d.long_option)))

(***************************************************************************)
(* C17.  A token that begins with a long flag followed by a non-empty      *)
(* remainder that no descriptor's long form matches, neither equal to the  *)
(* remainder nor a prefix of it immediately followed by the value          *)
(* separator, makes ParseArguments fail with InvalidLongOption, and        *)
(* nothing is recorded for that token.                                     *)
(***************************************************************************)
C17_UnknownLongOptionFails ==
    Parsed =>
        \A i \in 2..LastPosition :
            (/\ TokenReached(i)
             /\ LongFlagsOf(last.arguments[i]) # {}
             /\ AfterFlag(last.arguments[i]) # <<>>
             /\ \A j \in 1..Len(options) :
                    ~LongFormMatches(options[j], AfterFlag(last.arguments[i])))
                =>
                /\ last.err = "InvalidLongOption"
                /\ LogAt(i) = {Len(last.log)}
                /\ last.log[Len(last.log)].kind = "error"
                /\ last.log[Len(last.log)].outcome = "InvalidLongOption"
                /\ i = LastPosition \/ ~TokenReached(i + 1)
                /\ \A name \in DOMAIN option_map :
                       Len(option_map[name])
                           = Len(ValuesOf(last.pre_map, name))
                                 + StoresUpTo(Len(last.log) - 1, name)

C17_Witness ==
    /\ Parsed /\ last.err = "InvalidLongOption" /\ LastPosition = 4
    /\ last.arguments[2] = <<"-","a">>
    /\ last.arguments[3] = <<"-","-","c","o","l","o","r","x">>
    /\ OptionGiven(color.name) = FALSE
    /\ GetOptionCount(all.name) = 1
    /\ \E j \in 1..Len(options) : options[j] = color

\* The first character of bundle c that matches no descriptor's short form,
\* 0 if every character matches one
FirstUnknown(c) ==
    IF \A n \in 1..Len(c) : ShortMatches(c[n]) # {}
    THEN 0
    ELSE CHOOSE n \in 1..Len(c) :
             /\ ShortMatches(c[n]) = {}
             /\ \A m \in 1..(n - 1) : ShortMatches(c[m]) # {}

\* The first n characters of the bundle at position i are recorded one by
\* one: none belongs to a descriptor that expects a value and none is refused
Passable(i, c, n) ==
    /\ \A m \in 1..n : ~options[ShortMatch(c[m])].parameter_expected
    /\ NoneRefused(i, SubSeq(c, 1, n))

(***************************************************************************)
(* C18.  A short-option token containing a character that matches no       *)
(* descriptor's short form makes ParseArguments fail with                  *)
(* InvalidShortOption when that character is reached, and the occurrences  *)
(* already recorded for the earlier characters of the same bundle remain   *)
(* in the result mapping.                                                  *)
(***************************************************************************)
C18_UnknownCharacterFails ==
    Parsed =>
        \A i \in 2..LastPosition :
            LET c == AfterFlag(last.arguments[i])
                n == FirstUnknown(c)
            IN  (/\ TokenReached(i)
                 /\ LongFlagsOf(last.arguments[i]) = {}
                 /\ ShortFlagsOf(last.arguments[i]) # {}
                 /\ n > 0
                 /\ Passable(i, c, n - 1))
                    =>
                    /\ last.err = "InvalidShortOption"
                    /\ Cardinality(LogAt(i)) = n
                    /\ FirstAt(i) + n - 1 = Len(last.log)
                    /\ last.log[Len(last.log)].kind = "error"
                    /\ last.log[Len(last.log)].outcome = "InvalidShortOption"
                    /\ \A m \in 1..(n - 1) :
                           LET k == FirstAt(i) + m - 1
                               d == options[ShortMatch(c[m])]
                           IN  /\ last.log[k].option = d
                               /\ last.log[k].outcome = "stored"
                               /\ OptionGiven(d.name)
                               /\ Len(option_map[d.name])
                                      = Len(ValuesOf(last.pre_map, d.name))
                                            + StoresUpTo(Len(last.log), d.name)
                               /\ Recorded(k) = <<>>

C18_Witness ==
    /\ Parsed /\ last.err = "InvalidShortOption" /\ LastPosition = 3
    /\ last.arguments[2] = <<"-","v">>
    /\ last.arguments[3] = <<"-","a","x">>
    /\ ShortMatches("x") = {}
    /\ OptionGiven(all.name) /\ OptionGiven(verbose.name)
    /\ option_map[all.name] = << <<>> >>
    /\ option_map[verbose.name] = << <<>> >>

\* The token the call failed on: the position of the refusal it logged
FailedAt == last.log[Len(last.log)].at

\* The names the call stored something under before log entry k
StoredNames(k) ==
    { last.log[m].option.name :
        m \in { n \in 1..k : last.log[n].outcome = "stored" } }

(***************************************************************************)
(* C19.  When ParseArguments fails on a token, every entry recorded for    *)
(* the tokens processed before it stays in the result mapping unchanged    *)
(* (no rollback), and no token after the failing one is processed or       *)
(* recorded.                                                               *)
(***************************************************************************)
C19_FailureKeepsEarlierEntries ==
    (Parsed /\ last.err # NoError) =>
        /\ last.log # <<>>
        /\ { k \in LogIndex : last.log[k].outcome # "stored" } = {Len(last.log)}
        /\ last.log[Len(last.log)].outcome = last.err
        /\ \A i \in 2..LastPosition : TokenReached(i) => i <= FailedAt
        \* what the call found and what it stored is there
        /\ DOMAIN option_map
               = DOMAIN last.pre_map \cup StoredNames(Len(last.log))
        /\ \A name \in DOMAIN last.pre_map :
               /\ name \in DOMAIN option_map
               /\ IsPrefix(last.pre_map[name], option_map[name])
        /\ \A k \in LogIndex :
               last.log[k].outcome = "stored" =>
                   /\ last.log[k].option.name \in DOMAIN option_map
                   /\ Recorded(k) = IF last.log[k].kind = "string"
                                    THEN last.arguments[last.log[k].at]
                                    ELSE Supplied(last.log[k])
        \* and nothing else
        /\ \A name \in DOMAIN option_map :
               Len(option_map[name])
                   = Len(ValuesOf(last.pre_map, name))
                         + StoresUpTo(Len(last.log), name)

C19_Witness ==
    /\ Parsed /\ last.err = "MultipleInstances" /\ LastPosition = 4
    /\ last.arguments[2] = <<"-","a">>
    /\ last.arguments[3] = <<"-","a">>
    /\ last.arguments[4] = <<"f">>
    /\ FailedAt = 3
    /\ last.pre_map = EmptyMap
    /\ DOMAIN option_map = {all.name}
    /\ option_map[all.name] = << <<>> >>

\* A name no descriptor of the test specifications bears
Undeclared == <<"s","i","z","e">>

\* The names a retrieval is tried with: the declared ones, one that is not,
\* and the key of the positional arguments
QueryNames == {<<>>, Undeclared} \cup { options[j].name : j \in 1..Len(options) }

\* The ranges a numeric retrieval is tried with
QueryRanges == { <<SHRT_MIN, SHRT_MAX>>, <<0, 9>> }

(***************************************************************************)
(* C20.  Every retrieval operation (GetOptionString, GetOptionStrings,     *)
(* GetOptionValue, GetOptionValues) called with a name that has no entry   *)
(* in the result mapping fails with OptionNotGiven, alike for a declared   *)
(* option that was not given, an undeclared name, and the positional key   *)
(* when no positional was recorded.                                        *)
(***************************************************************************)
C20_AbsentNameIsNotGiven ==
    \A option_name \in QueryNames :
        GetOptionCount(option_name) = 0 =>
            /\ GetOptionStrings(option_name).err = "OptionNotGiven"
            /\ GetOptionString(option_name).err = "OptionNotGiven"
            /\ \A range \in QueryRanges :
                   /\ GetOptionValues(option_name, range[1], range[2]).err
                          = "OptionNotGiven"
                   /\ GetOptionValue(option_name, range[1], range[2]).err
                          = "OptionNotGiven"

C20_Witness ==
    /\ Parsed /\ last.err = NoError
    /\ last.arguments = Arguments(<< <<"-","a">> >>)
    /\ \E j \in 1..Len(options) : options[j] = pattern
    /\ GetOptionCount(all.name) = 1
    /\ GetOptionStrings(all.name) = Returned(<< <<>> >>)
    /\ GetOptionCount(pattern.name) = 0
    /\ GetOptionCount(Undeclared) = 0
    /\ GetOptionCount(<<>>) = 0
    /\ GetOptionString(pattern.name).err = "OptionNotGiven"
    /\ GetOptionValue(Undeclared, SHRT_MIN, SHRT_MAX).err = "OptionNotGiven"
    /\ GetOptionValues(<<>>, SHRT_MIN, SHRT_MAX).err = "OptionNotGiven"

(***************************************************************************)
(* C21.  In every reachable state GetOptionCount(name) is 0 when name has  *)
(* no entry and otherwise the length of its recorded sequence, and         *)
(* OptionGiven(name) is true exactly when GetOptionCount(name) >= 1: no    *)
(* entry of the result mapping ever has an empty sequence.                 *)
(***************************************************************************)
C21_CountAgreesWithGiven ==
    /\ \A option_name \in DOMAIN option_map :
           /\ option_map[option_name] # <<>>
           /\ GetOptionCount(option_name) = Len(option_map[option_name])
    /\ \A option_name \in KnownNames \cup {Undeclared} :
           /\ option_name \notin DOMAIN option_map
                  => GetOptionCount(option_name) = 0
           /\ OptionGiven(option_name) <=> GetOptionCount(option_name) >= 1

C21_Witness ==
    /\ Parsed
    /\ \E j \in 1..Len(options) : options[j] = color
    /\ GetOptionCount(all.name) = 1 /\ OptionGiven(all.name)
    /\ GetOptionCount(pattern.name) = 1 /\ OptionGiven(pattern.name)
    /\ GetOptionCount(<<>>) = 1 /\ OptionGiven(<<>>)
    /\ GetOptionCount(color.name) = 0 /\ ~OptionGiven(color.name)
    /\ GetOptionCount(Undeclared) = 0 /\ ~OptionGiven(Undeclared)

\* A string of decimal digits and the number it denotes, for strings of at
\* most nine digits, which are below INT_MAX
NumericString(value) ==
    /\ Len(value) \in 1..9
    /\ \A k \in 1..Len(value) : isdigit(value[k])

RECURSIVE NumberOf(_)
NumberOf(value) ==
    IF value = <<>> THEN 0
    ELSE 10 * NumberOf(SubSeq(value, 1, Len(value) - 1))
             + DigitValue(value[Len(value)])

\* The [min, max] an unsigned retrieval is tried with
UnsignedRanges ==
    { <<0, 99>>, <<0, 999>>, <<0, 199>>, <<0, 200>>, <<200, 200>>,
      <<200, 999>>, <<201, 999>>, <<0, 0>> }

(***************************************************************************)
(* C22.  Numeric retrieval with caller bounds [min, max] succeeds for a    *)
(* recorded numeric string exactly when its converted value v satisfies    *)
(* min <= v <= max, both bounds inclusive, and otherwise fails with        *)
(* OptionValueError: the value "200" read as an unsigned integer fails for *)
(* [0,99] and returns 200 for [0,999], and a value equal to min or to max  *)
(* is accepted.  Stated for a name with one recorded value, and for the    *)
(* plural retrieval of a name whose recorded values are all numeric.       *)
(***************************************************************************)
C22_RangeIsInclusive ==
    \A option_name \in DOMAIN option_map :
        (\A k \in 1..Len(option_map[option_name]) :
             NumericString(option_map[option_name][k])) =>
            \A range \in UnsignedRanges :
                LET numbers == [k \in 1..Len(option_map[option_name]) |->
                                   NumberOf(option_map[option_name][k])]
                    within == \A k \in 1..Len(numbers) :
                                  range[1] <= numbers[k] /\ numbers[k] <= range[2]
                IN  /\ GetOptionValuesUnsigned(option_name, range[1], range[2])
                           = IF within THEN Returned(numbers)
                                       ELSE Thrown("OptionValueError")
                    /\ Len(numbers) = 1 =>
                           GetOptionValueUnsigned(option_name, range[1], range[2])
                               = IF within THEN Returned(numbers[1])
                                           ELSE Thrown("OptionValueError")

C22_Witness ==
    /\ Parsed /\ last.err = NoError
    /\ OptionGiven(size.name)
    /\ option_map[size.name] = << <<"2","0","0">> >>
    /\ GetOptionValueUnsigned(size.name, 0, 99) = Thrown("OptionValueError")
    /\ GetOptionValueUnsigned(size.name, 0, 999) = Returned(200)
    /\ GetOptionValueUnsigned(size.name, 0, 200) = Returned(200)
    /\ GetOptionValueUnsigned(size.name, 200, 999) = Returned(200)
    /\ GetOptionValueUnsigned(size.name, 201, 999) = Thrown("OptionValueError")

\* The recorded value is a number within [range[1], range[2]]
NumberWithin(value, range) ==
    /\ NumericString(value)
    /\ range[1] <= NumberOf(value)
    /\ NumberOf(value) <= range[2]

\* The call returned value and threw nothing
Returns(result, value) == result.err = NoError /\ result.value = value

(***************************************************************************)
(* C23.  For a name with recorded values, the singular retrievals          *)
(* (GetOptionString, GetOptionValue) return the first recorded value, and  *)
(* the plural retrievals (GetOptionStrings, GetOptionValues) return all    *)
(* recorded values with the same length and the same order as they were    *)
(* recorded.  For the numeric retrievals the values returned are the       *)
(* numbers the recorded strings denote: the first one if it is a number    *)
(* within the caller's bounds, all of them if they all are.                *)
(***************************************************************************)
C23_FirstAndAllInOrder ==
    \A option_name \in DOMAIN option_map :
        /\ GetOptionStrings(option_name) = Returned(option_map[option_name])
        /\ GetOptionString(option_name) = Returned(option_map[option_name][1])
        /\ \A range \in UnsignedRanges :
               /\ (\A k \in 1..Len(option_map[option_name]) :
                       NumberWithin(option_map[option_name][k], range)) =>
                      Returns(GetOptionValuesUnsigned(option_name,
                                                      range[1], range[2]),
                              [k \in 1..Len(option_map[option_name]) |->
                                  NumberOf(option_map[option_name][k])])
               /\ NumberWithin(option_map[option_name][1], range) =>
                      Returns(GetOptionValueUnsigned(option_name,
                                                     range[1], range[2]),
                              NumberOf(option_map[option_name][1]))

(***************************************************************************)
(* C23, amended.  ... the numeric singular retrieval returns the first     *)
(* recorded value provided every recorded value of the name, not only the  *)
(* first, is a number within the caller's bounds: all of them are          *)
(* converted before the first is taken.                                    *)
(***************************************************************************)
C23_FirstAndAllInOrderIfAllConvert ==
    \A option_name \in DOMAIN option_map :
        /\ GetOptionStrings(option_name) = Returned(option_map[option_name])
        /\ GetOptionString(option_name) = Returned(option_map[option_name][1])
        /\ \A range \in UnsignedRanges :
               (\A k \in 1..Len(option_map[option_name]) :
                    NumberWithin(option_map[option_name][k], range)) =>
                   /\ Returns(GetOptionValuesUnsigned(option_name,
                                                      range[1], range[2]),
                              [k \in 1..Len(option_map[option_name]) |->
                                  NumberOf(option_map[option_name][k])])
                   /\ Returns(GetOptionValueUnsigned(option_name,
                                                     range[1], range[2]),
                              NumberOf(option_map[option_name][1]))

C23_Witness ==
    /\ Parsed /\ last.err = NoError
    /\ last.arguments
           = Arguments(<< <<"2","0","0">>, <<"9","9">>, <<"0">> >>)
    /\ GetOptionString(<<>>) = Returned(<<"2","0","0">>)
    /\ GetOptionStrings(<<>>)
           = Returned(<< <<"2","0","0">>, <<"9","9">>, <<"0">> >>)
    /\ GetOptionValueUnsigned(<<>>, 0, 999) = Returned(200)
    /\ GetOptionValuesUnsigned(<<>>, 0, 999) = Returned(<<200, 99, 0>>)
    /\ GetOptionValueUnsigned(<<>>, 200, 999).err = "OptionValueError"

(***************************************************************************)
(* C24.  ParseArguments never interprets the token at position zero, even  *)
(* when it looks like an option, and a token sequence of length 0 or 1     *)
(* (or argc < 1 in the argc/argv form) leaves the result mapping unchanged *)
(* and raises no error.  Not interpreted: nothing is recorded or refused   *)
(* for it, and the call ends as it does with any other command name.       *)
(***************************************************************************)
C24_CommandNameIsSkipped ==
    Parsed =>
        /\ Len(last.arguments) <= 1 =>
               /\ option_map = last.pre_map
               /\ last.err = NoError
               /\ last.log = <<>>
        /\ \A k \in LogIndex : last.log[k].at >= 2
        /\ Len(last.arguments) >= 1 =>
               \A name \in DOMAIN option_map :
                   Len(option_map[name])
                       = Len(ValuesOf(last.pre_map, name))
                             + StoresUpTo(Len(last.log), name)
        /\ Len(last.arguments) >= 1 =>
               \A command \in Commands :
                   LET other == ParseArgumentsFrom(
                                    last.pre_map,
                                    <<command>> \o Tail(last.arguments))
                   IN  other.map = option_map /\ other.err = last.err

C24_Witness ==
    /\ Parsed /\ last.err = NoError
    /\ last.arguments = << <<"-","a">> >>
    /\ last.pre_map # EmptyMap
    /\ option_map = last.pre_map
    /\ GetOptionCount(all.name) = 1

\* Two names are the same: exactly, or, if fold is set, up to letter case
NameIs(a, b, fold) == a = b \/ (fold /\ Uppercase(a) = Uppercase(b))

\* The descriptors whose long form matches the text after a long flag, the
\* long form compared under fold and the separator exactly
LongMatchesUnder(text, fold) ==
    { j \in 1..Len(options) :
        /\ options[j].long_option # <<>>
        /\ Len(options[j].long_option) <= Len(text)
        /\ NameIs(SubSeq(text, 1, Len(options[j].long_option)),
                  options[j].long_option, fold)
        /\ \/ Len(text) = Len(options[j].long_option)
           \/ IsPrefix(option_value_separator,
                       Without(text, Len(options[j].long_option))) }

\* The descriptors whose short form is the character, compared under fold
ShortMatchesUnder(character, fold) ==
    { j \in 1..Len(options) :
        /\ options[j].short_option # <<>>
        /\ NameIs(options[j].short_option, <<character>>, fold) }

\* The first log entry for the token at position i is for the first of the
\* descriptors M, or is the refusal error if there is none
AttributedToFirst(i, M, error) ==
    IF M = {}
    THEN /\ last.log[FirstAt(i)].kind = "error"
         /\ last.log[FirstAt(i)].outcome = error
    ELSE /\ last.log[FirstAt(i)].option
                = options[CHOOSE j \in M : \A m \in M : j <= m]
         /\ last.log[FirstAt(i)].outcome # error

(***************************************************************************)
(* C25.  With the case-insensitive toggle set, short-option characters and *)
(* long forms match tokens irrespective of letter case, while flag         *)
(* prefixes and the value separator are still compared case-sensitively;   *)
(* with the toggle clear, option identifiers match only case-exactly.      *)
(***************************************************************************)
C25_CaseOfIdentifiersOnly ==
    Parsed =>
        \A i \in 2..LastPosition :
            TokenReached(i) =>
                /\ (/\ LongFlagsOf(last.arguments[i]) = {}
                    /\ ShortFlagsOf(last.arguments[i]) = {})
                       => StoredAsString(i)
                /\ (/\ LongFlagsOf(last.arguments[i]) # {}
                    /\ AfterFlag(last.arguments[i]) # <<>>)
                       => AttributedToFirst(
                              i,
                              LongMatchesUnder(AfterFlag(last.arguments[i]),
                                               case_insensitive),
                              "InvalidLongOption")
                /\ (/\ LongFlagsOf(last.arguments[i]) = {}
                    /\ ShortFlagsOf(last.arguments[i]) # {}
                    /\ AfterFlag(last.arguments[i]) # <<>>)
                       => AttributedToFirst(
                              i,
                              ShortMatchesUnder(AfterFlag(last.arguments[i])[1],
                                                case_insensitive),
                              "InvalidShortOption")

C25_Witness ==
    /\ Parsed /\ case_insensitive /\ LastPosition = 4
    /\ last.arguments[2] = <<"o","A">>
    /\ last.arguments[3] = <<"L","-","a","l","l">>
    /\ last.arguments[4] = <<"l","-","C","O","L","O","R","e","q","r">>
    /\ last.err = NoError
    /\ DOMAIN option_map = {<<>>, all.name, color.name}
    /\ option_map[all.name] = << <<>> >>
    /\ option_map[<<>>] = << <<"L","-","a","l","l">> >>
    /\ option_map[color.name] = << <<"r">> >>

(***************************************************************************)
(* C26.  In every state reachable after a successful SetOptions, through   *)
(* any sequence of ParseArguments calls (repeated, successful or failing), *)
(* ClearOptions calls and queries, each descriptor with                    *)
(* allow_multiple=false has at most one recorded value.  A SetOptions call *)
(* succeeds exactly when the specification and the flag sets it installs   *)
(* have no defect, and it leaves the state a constructor with the same     *)
(* arguments leaves.                                                       *)
(***************************************************************************)
C26_SingleInstanceHasOneValue ==
    Defects(Installed) = {} =>
        \A j \in 1..Len(options) :
            ~options[j].multiple_allowed =>
                /\ GetOptionCount(options[j].name) <= 1
                /\ Len(ValuesOf(option_map, options[j].name)) <= 1

C26_Witness ==
    /\ Parsed /\ last.err = "MultipleInstances"
    /\ Defects(Installed) = {}
    /\ calls = 2
    /\ last.pre_map # EmptyMap
    /\ \E j \in 1..Len(options) : options[j] = all
    /\ GetOptionCount(all.name) = 1
    /\ GetOptionCount(color.name) = 1
    /\ \E k \in LogIndex : /\ last.log[k].option \in {all, color}
                           /\ last.log[k].outcome = "MultipleInstances"

\* The descriptors whose long form matches what follows some configured long
\* flag that begins the token
MatchesAfterSomeFlag(t) ==
    UNION { LongMatchesUnder(Without(t, Len(long_flags[f])), case_insensitive) :
              f \in { g \in LongFlagsOf(t) : Len(t) > Len(long_flags[g]) } }

(***************************************************************************)
(* C27.  As claimed: a token is matched as a long option whenever, for     *)
(* some configured long-flag prefix that begins the token, the remainder   *)
(* after that prefix matches a descriptor: every configured prefix that    *)
(* begins the token is tried, not only the first one in configuration      *)
(* order.                                                                  *)
(***************************************************************************)
C27_EveryLongFlagIsTried ==
    Parsed =>
        \A i \in 2..LastPosition :
            (/\ TokenReached(i)
             /\ MatchesAfterSomeFlag(last.arguments[i]) # {}) =>
                /\ last.log[FirstAt(i)].option
                       \in { options[j] :
                               j \in MatchesAfterSomeFlag(last.arguments[i]) }
                /\ last.log[FirstAt(i)].outcome # "InvalidLongOption"

(***************************************************************************)
(* C27, amended.  A token is matched as a long option when the remainder   *)
(* after the first configured long-flag prefix that begins the token, in   *)
(* configuration order, matches a descriptor.  No other prefix is tried:   *)
(* when that remainder is not empty and matches no descriptor the call     *)
(* fails with InvalidLongOption, even if the remainder after a later       *)
(* prefix matches one.                                                     *)
(***************************************************************************)
C27_FirstLongFlagIsTried ==
    Parsed =>
        \A i \in 2..LastPosition :
            (/\ TokenReached(i)
             /\ LongFlagsOf(last.arguments[i]) # {}
             /\ AfterFlag(last.arguments[i]) # <<>>) =>
                IF LongMatchesUnder(AfterFlag(last.arguments[i]),
                                    case_insensitive) = {}
                THEN /\ last.err = "InvalidLongOption"
                     /\ last.log[FirstAt(i)].outcome = "InvalidLongOption"
                     /\ FirstAt(i) = Len(last.log)
                ELSE /\ last.log[FirstAt(i)].option
                            \in { options[j] :
                                    j \in LongMatchesUnder(
                                              AfterFlag(last.arguments[i]),
                                              case_insensitive) }
                     /\ last.log[FirstAt(i)].outcome # "InvalidLongOption"

C27_Witness ==
    /\ Parsed /\ LastPosition = 2
    /\ long_flags = << <<"-">>, <<"-","-">> >>
    /\ last.arguments[2] = <<"-","-","a","l","l">>
    /\ Cardinality(LongFlagsOf(last.arguments[2])) = 2
    /\ MatchesAfterSomeFlag(last.arguments[2]) # {}
    /\ last.err = "InvalidLongOption"
    /\ option_map = EmptyMap

(***************************************************************************)
(* C28.  When more than one descriptor's long form syntactically matches a *)
(* token's remainder (equal to the remainder, or a prefix of it            *)
(* immediately followed by the value separator), the token is attributed   *)
(* to the matching descriptor declared earliest in the specification, and  *)
(* later matching descriptors are never considered.                        *)
(***************************************************************************)
C28_EarliestMatchWins ==
    Parsed =>
        \A i \in 2..LastPosition :
            (/\ TokenReached(i)
             /\ LongFlagsOf(last.arguments[i]) # {}
             /\ Cardinality(LongMatchesUnder(AfterFlag(last.arguments[i]),
                                             case_insensitive)) >= 2) =>
                /\ AttributedToFirst(
                       i,
                       LongMatchesUnder(AfterFlag(last.arguments[i]),
                                        case_insensitive),
                       "InvalidLongOption")
                /\ LogAt(i) = {FirstAt(i)}

C28_Witness ==
    /\ Parsed /\ last.err = NoError /\ LastPosition = 3
    /\ options = <<foo, foo_b>>
    /\ last.arguments[2] = <<"-","-","f","o","o","=","b">>
    /\ last.arguments[3] = <<"-","-","f","o","o","=","b","a","r">>
    /\ DOMAIN option_map = {foo.name}
    /\ option_map[foo.name] = << <<"b">>, <<"b","a","r">> >>

\* The string occurs somewhere in the text
Occurs(string, text) ==
    \E k \in 1..(Len(text) - Len(string) + 1) :
        SubSeq(text, k, k + Len(string) - 1) = string

(***************************************************************************)
(* C29.  Under case-sensitive matching, a single long-flag prefix and a    *)
(* non-empty value separator that occurs in no descriptor's long form, a   *)
(* token made of the prefix followed by exactly descriptor d's long form   *)
(* is attributed to d whatever the declaration order, even when an         *)
(* earlier-declared descriptor's long form is a proper prefix of d's       *)
(* ("foo" declared before "foobar").  Stated for specifications in which   *)
(* no two descriptors have the same long form.                             *)
(***************************************************************************)
C29_ExactLongFormWins ==
    (/\ Parsed
     /\ ~case_insensitive
     /\ Len(long_flags) = 1
     /\ option_value_separator # <<>>
     /\ \A j \in 1..Len(options) :
            ~Occurs(option_value_separator, options[j].long_option)
     /\ ~HasDefect(Installed, "DuplicateLongOption")) =>
        \A i \in 2..LastPosition :
            \A j \in 1..Len(options) :
                (/\ TokenReached(i)
                 /\ options[j].long_option # <<>>
                 /\ last.arguments[i]
                        = long_flags[1] \o options[j].long_option) =>
                    /\ LogAt(i) = {FirstAt(i)}
                    /\ last.log[FirstAt(i)].kind = "option"
                    /\ last.log[FirstAt(i)].site = "long"
                    /\ last.log[FirstAt(i)].option = options[j]

C29_Witness ==
    /\ Parsed /\ last.err = NoError /\ LastPosition = 3
    /\ options = <<foo, foobar>>
    /\ last.arguments[2] = <<"-","-","f","o","o","b","a","r">>
    /\ last.arguments[3] = <<"x">>
    /\ DOMAIN option_map = {foobar.name, <<>>}
    /\ option_map[foobar.name] = << <<>> >>

\* The places where ProcessLongOption stores or throws
LongSites == {"long", "long-value", "long-flag"}

\* The token would be recorded as a short-option bundle if short-option
\* matching were attempted on it
ValidShortBundle(t) ==
    \E f \in ShortFlagsOf(t) :
        /\ Len(t) > Len(short_flags[f])
        /\ \A k \in (Len(short_flags[f]) + 1)..Len(t) :
               ShortMatchesUnder(t[k], case_insensitive) # {}

(***************************************************************************)
(* C30.  As claimed: short-option matching is attempted on a token only if *)
(* no configured long-flag prefix begins the token: a token that begins    *)
(* with a long-flag prefix is either recorded by long-option matching (or  *)
(* as a bare prefix) or fails with InvalidLongOption, even when the same   *)
(* token would be a valid short-option bundle.                             *)
(***************************************************************************)
C30_LongFlagEndsInRecordOrInvalid ==
    Parsed =>
        \A i \in 2..LastPosition :
            (TokenReached(i) /\ LongFlagsOf(last.arguments[i]) # {}) =>
                /\ LogAt(i) = {FirstAt(i)}
                /\ last.log[FirstAt(i)].site \in LongSites
                /\ last.log[FirstAt(i)].outcome
                       \in {"stored", "InvalidLongOption"}

(***************************************************************************)
(* C30, amended.  ... a token that begins with a long-flag prefix is       *)
(* handled by long-option matching alone: it is recorded by it (or as a    *)
(* bare prefix), or the call fails there with InvalidLongOption, with      *)
(* MissingOptionArgument or with MultipleInstances; short-option matching  *)
(* is not attempted on it.                                                 *)
(***************************************************************************)
C30_LongFlagExcludesShortMatching ==
    Parsed =>
        \A i \in 2..LastPosition :
            (TokenReached(i) /\ LongFlagsOf(last.arguments[i]) # {}) =>
                /\ LogAt(i) = {FirstAt(i)}
                /\ last.log[FirstAt(i)].site \in LongSites
                /\ last.log[FirstAt(i)].outcome
                       \in {"stored", "InvalidLongOption",
                            "MissingOptionArgument", "MultipleInstances"}
                /\ last.log[FirstAt(i)].outcome # "stored"
                       => /\ last.err = last.log[FirstAt(i)].outcome
                          /\ FirstAt(i) = Len(last.log)

C30_Witness ==
    /\ Parsed /\ LastPosition = 3
    /\ ~HasDefect(Installed, "FlagConflict")
    /\ last.arguments[2] = <<"f">>
    /\ last.arguments[3] = <<"-","-","a">>
    /\ LongFlagsOf(last.arguments[3]) # {}
    /\ ValidShortBundle(last.arguments[3])
    /\ last.err = "InvalidLongOption"
    /\ DOMAIN option_map = {<<>>}

\* The values the call stored under name, in the order it stored them
StoredValues(name) ==
    LET stores == SelectSeq(last.log,
                            LAMBDA e : e.outcome = "stored"
                                       /\ e.option.name = name)
    IN  [k \in 1..Len(stores) |-> stores[k].value]

\* The refusal a failed call ended with
Refusal == last.log[Len(last.log)]

\* The parameters StoreOption is called with: none, an empty one and a value
StoreParameters == { <<>>, << <<>> >>, << <<"r">> >> }

(***************************************************************************)
(* C31.  A StoreOption that fails leaves the result mapping exactly as it  *)
(* was: after a parse fails with MissingOptionArgument for an option that  *)
(* had no entry, OptionGiven(name) is false and GetOptionCount(name) is 0, *)
(* and after a MultipleInstances failure the option still has exactly its  *)
(* earlier values.                                                         *)
(***************************************************************************)
C31_FailedStoreChangesNothing ==
    \* StoreOption on the option_map as it is
    /\ \A j \in 1..Len(options) :
           \A parameter \in StoreParameters :
               StoreOption(Begin(option_map), options[j], parameter, "long").err
                       # NoError
                   => StoreOption(Begin(option_map), options[j], parameter,
                                  "long").map = option_map
    \* and the call it failed in
    /\ (Parsed /\ last.err \in {"MissingOptionArgument", "MultipleInstances"}) =>
           /\ last.log # <<>>
           /\ Refusal.outcome = last.err
           /\ last.err = "MultipleInstances" => Refusal.had
           /\ OptionGiven(Refusal.option.name) <=> Refusal.had
           /\ ~Refusal.had => GetOptionCount(Refusal.option.name) = 0
           /\ \A name \in DOMAIN option_map \cup {Refusal.option.name} :
                  ValuesOf(option_map, name)
                      = ValuesOf(last.pre_map, name) \o StoredValues(name)

C31_Witness ==
    /\ Parsed /\ last.err = "MissingOptionArgument"
    /\ last.arguments = Arguments(<< <<"-","a">>, <<"-","-","c","o","l","o","r">> >>)
    /\ last.pre_map = EmptyMap
    /\ Refusal.option = color /\ ~Refusal.had
    /\ ~OptionGiven(color.name) /\ GetOptionCount(color.name) = 0
    /\ option_map[all.name] = << <<>> >>
    /\ StoreOption(Begin(option_map), all, <<>>, "long").err = "MultipleInstances"
    /\ StoreOption(Begin(option_map), all, <<>>, "long").map = option_map

\* The caller's variable after a singular retrieval that ended in result:
\* option_value = option_values.front() is reached only when GetOptionValues
\* has returned
Assigned(result, option_value) ==
    IF result.err # NoError
    THEN [err |-> result.err, option_value |-> option_value]
    ELSE [err |-> NoError, option_value |-> result.value]

\* Parser::GetOptionValue<unsigned> and <short> with the caller's variable
GetOptionValueUnsignedInto(option_name, option_value, min, max) ==
    Assigned(GetOptionValueUnsigned(option_name, min, max), option_value)

GetOptionValueInto(option_name, option_value, min, max) ==
    Assigned(GetOptionValue(option_name, min, max), option_value)

\* What the caller's variable holds before the retrieval
OutputValues == {0, 7}

\* A string without a digit, which no textual-to-numeric rule converts
NoNumber(value) == \A k \in 1..Len(value) : ~isdigit(value[k])

\* The recorded value is refused for the range: it is no number, or it is
\* one outside the range
Refused(value, range) ==
    \/ NoNumber(value)
    \/ NumericString(value) /\ ~NumberWithin(value, range)

(***************************************************************************)
(* C32.  Singular numeric retrieval (GetOptionValue) converts and          *)
(* range-checks every recorded value of the option before returning the    *)
(* first: it fails with OptionValueError when any recorded value, not only *)
(* the first, is non-numeric or outside [min, max], and in that case       *)
(* leaves the caller's output variable unchanged.  When every recorded     *)
(* value is a number within the bounds the variable holds the first.       *)
(***************************************************************************)
C32_SingularConvertsEveryValue ==
    \A option_name \in DOMAIN option_map :
        \A option_value \in OutputValues :
            /\ \A range \in UnsignedRanges :
                   /\ (\E k \in 1..Len(option_map[option_name]) :
                           Refused(option_map[option_name][k], range)) =>
                          GetOptionValueUnsignedInto(option_name, option_value,
                                                     range[1], range[2])
                              = [err |-> "OptionValueError",
                                 option_value |-> option_value]
                   /\ (\A k \in 1..Len(option_map[option_name]) :
                           NumberWithin(option_map[option_name][k], range)) =>
                          GetOptionValueUnsignedInto(option_name, option_value,
                                                     range[1], range[2])
                              = [err |-> NoError,
                                 option_value |->
                                     NumberOf(option_map[option_name][1])]
            /\ \A range \in QueryRanges :
                   /\ (\E k \in 1..Len(option_map[option_name]) :
                           Refused(option_map[option_name][k], range)) =>
                          GetOptionValueInto(option_name, option_value,
                                             range[1], range[2])
                              = [err |-> "OptionValueError",
                                 option_value |-> option_value]
                   /\ (\A k \in 1..Len(option_map[option_name]) :
                           NumberWithin(option_map[option_name][k], range)) =>
                          GetOptionValueInto(option_name, option_value,
                                             range[1], range[2])
                              = [err |-> NoError,
                                 option_value |->
                                     NumberOf(option_map[option_name][1])]

C32_Witness ==
    /\ Parsed /\ last.err = NoError
    /\ last.arguments = Arguments(<< <<"0">>, <<"2","0","0">>, <<"f">> >>)
    /\ option_map[<<>>] = << <<"0">>, <<"2","0","0">>, <<"f">> >>
    /\ NumberWithin(option_map[<<>>][1], <<0, 999>>)
    /\ Refused(option_map[<<>>][2], <<0, 99>>)
    /\ Refused(option_map[<<>>][3], <<0, 999>>)
    /\ GetOptionValueUnsignedInto(<<>>, 7, 0, 999)
           = [err |-> "OptionValueError", option_value |-> 7]
    /\ GetOptionValueInto(<<>>, 7, 0, 9)
           = [err |-> "OptionValueError", option_value |-> 7]

\* The descriptor a long-option text is attributed to: the first one, in the
\* order declared, whose long form matches it
FirstLongMatch(text) ==
    options[CHOOSE j \in LongMatchesUnder(text, case_insensitive) :
                \A m \in LongMatchesUnder(text, case_insensitive) : j <= m]

\* What follows the long form of d and the value separator in the text
AfterSeparator(d, text) ==
    Without(text, Len(d.long_option) + Len(option_value_separator))

\* The text is attributed to a descriptor whose long form the value separator
\* follows, and the descriptor expects no value or nothing follows the
\* separator
SeparatorWithoutValue(text) ==
    /\ LongMatchesUnder(text, case_insensitive) # {}
    /\ Len(text) > Len(FirstLongMatch(text).long_option)
    /\ \/ ~FirstLongMatch(text).parameter_expected
       \/ AfterSeparator(FirstLongMatch(text), text) = <<>>

(***************************************************************************)
(* C33.  A long-option token in which the matched long form is immediately *)
(* followed by the value separator fails with MissingOptionArgument,       *)
(* records nothing and does not go on to try later descriptors, when the   *)
(* matched descriptor does not expect a value or when nothing follows the  *)
(* separator (as in --color=).  The matched descriptor is the first one    *)
(* declared whose long form matches what follows the long flag.            *)
(***************************************************************************)
C33_SeparatorWithoutValueFails ==
    Parsed =>
        \A i \in 2..LastPosition :
            (/\ TokenReached(i)
             /\ LongFlagsOf(last.arguments[i]) # {}
             /\ SeparatorWithoutValue(AfterFlag(last.arguments[i]))) =>
                /\ last.err = "MissingOptionArgument"
                /\ LogAt(i) = {Len(last.log)}
                /\ Refusal.kind = "error"
                /\ Refusal.site = "long-value"
                /\ Refusal.outcome = "MissingOptionArgument"
                /\ Refusal.option = FirstLongMatch(AfterFlag(last.arguments[i]))
                /\ i = LastPosition \/ ~TokenReached(i + 1)
                /\ \A name \in DOMAIN option_map :
                       option_map[name]
                           = ValuesOf(last.pre_map, name) \o StoredValues(name)
                /\ \A k \in LogIndex :
                       last.log[k].outcome = "stored" => last.log[k].at < i

C33_Witness ==
    /\ Parsed /\ LastPosition = 3
    /\ options = <<[foo EXCEPT !.parameter_expected = FALSE], foo_b>>
    /\ last.arguments[2] = <<"f">>
    /\ last.arguments[3] = <<"-","-","f","o","o","=","b">>
    /\ LongMatchesUnder(AfterFlag(last.arguments[3]), case_insensitive) = {1, 2}
    /\ SeparatorWithoutValue(AfterFlag(last.arguments[3]))
    /\ last.err = "MissingOptionArgument"
    /\ DOMAIN option_map = {<<>>}

\* The names of the descriptors of the installed specification
DeclaredNames == { options[j].name : j \in 1..Len(options) }

(***************************************************************************)
(* C34.  In every reachable state, every key of the result mapping is      *)
(* either the positional key "" or the name of a descriptor of the         *)
(* currently installed specification: no parse ever records a value under  *)
(* any other name.                                                         *)
(***************************************************************************)
C34_KeysAreDeclaredNames ==
    /\ DOMAIN option_map \subseteq {<<>>} \cup DeclaredNames
    /\ Parsed =>
           \A k \in LogIndex :
               last.log[k].outcome = "stored" =>
                   last.log[k].option.name
                       \in IF last.log[k].kind = "string" THEN {<<>>}
                                                          ELSE DeclaredNames

C34_Witness ==
    /\ Parsed /\ last.err = NoError
    /\ options = DuplicateIdentifierConfig.options
    /\ last.arguments = Arguments(<< <<"-","p">>, <<"-","a">>, <<"f">> >>)
    /\ DeclaredNames = {verbose.name}
    /\ DOMAIN option_map = {verbose.name, <<>>}
    /\ option_map[verbose.name] = << <<"-","a">> >>

\* The queries, and whether the state is the one a query left
Queries ==
    {"OptionGiven", "GetOptionCount", "GetOptionString", "GetOptionStrings",
     "GetOptionValue", "GetOptionValues"}

Queried == last.op \in Queries

(***************************************************************************)
(* C35.  The query operations OptionGiven, GetOptionCount,                 *)
(* GetOptionString, GetOptionStrings, GetOptionValue and GetOptionValues   *)
(* never change the result mapping or the installed specification:         *)
(* querying a name that has no entry, whether the query returns or fails   *)
(* with OptionNotGiven, creates no entry, so OptionGiven(name) is still    *)
(* false afterwards.                                                       *)
(***************************************************************************)
C35_QueriesChangeNothing ==
    Queried =>
        /\ option_map = last.pre_map
        /\ Installed = last.pre_config
        /\ last.arguments[1] \notin DOMAIN last.pre_map =>
               /\ ~OptionGiven(last.arguments[1])
               /\ GetOptionCount(last.arguments[1]) = 0
               /\ last.err = IF last.op \in {"OptionGiven", "GetOptionCount"}
                             THEN NoError ELSE "OptionNotGiven"

C35_Witness ==
    /\ last.op = "GetOptionValue" /\ last.err = "OptionNotGiven"
    /\ last.arguments = <<color.name>>
    /\ ~OptionGiven(color.name)
    /\ DOMAIN option_map = {all.name, <<>>}
    /\ option_map = last.pre_map

\* The descriptor takes a value and allows one instance
SingleValued(d) == ~d.multiple_allowed /\ d.parameter_expected

\* The token at position i is a long flag and exactly the long form of the
\* descriptor it is attributed to, and is the last token
LongFormLast(i) ==
    /\ i = LastPosition
    /\ LongFlagsOf(last.arguments[i]) # {}
    /\ LongMatchesUnder(AfterFlag(last.arguments[i]), case_insensitive) # {}
    /\ Len(FirstLongMatch(AfterFlag(last.arguments[i])).long_option)
           = Len(AfterFlag(last.arguments[i]))

\* The token at position i is a bundle whose first character is a short
\* form, and that character has no value: another character follows it, or
\* the token is the last one
FirstCharacterWithoutValue(i) ==
    /\ LongFlagsOf(last.arguments[i]) = {}
    /\ ShortFlagsOf(last.arguments[i]) # {}
    /\ Len(AfterFlag(last.arguments[i])) >= 1
    /\ ShortMatches(AfterFlag(last.arguments[i])[1]) # {}
    /\ Len(AfterFlag(last.arguments[i])) >= 2 \/ i = LastPosition

\* The call ended at the token at position i, refusing a second instance of d
RefusedAsSecond(i, d) ==
    /\ last.err = "MultipleInstances"
    /\ LogAt(i) = {Len(last.log)}
    /\ Refusal.kind = "option"
    /\ Refusal.option = d
    /\ Refusal.had
    /\ Refusal.outcome = "MultipleInstances"

(***************************************************************************)
(* C36.  When a descriptor with allow_multiple=false and                   *)
(* expects_value=true already has an entry and occurs again with no value  *)
(* available (as the last token, or as a non-last character of a bundle),  *)
(* the failure is reported as MultipleInstances and not as                 *)
(* MissingOptionArgument: StoreOption checks cardinality before it checks  *)
(* for the value.                                                          *)
(***************************************************************************)
C36_SecondInstanceBeforeMissingValue ==
    Parsed =>
        \* every such occurrence that StoreOption was called for
        /\ \A k \in LogIndex :
               (/\ last.log[k].kind = "option"
                /\ SingleValued(last.log[k].option)
                /\ last.log[k].had
                /\ \/ last.log[k].site = "short-inner"
                   \/ last.log[k].at = LastPosition) =>
                   /\ last.log[k].outcome = "MultipleInstances"
                   /\ last.err = "MultipleInstances"
                   /\ k = Len(last.log)
        \* the tokens it is called for
        /\ \A i \in 2..LastPosition :
               /\ (/\ TokenReached(i)
                   /\ LongFormLast(i)
                   /\ SingleValued(FirstLongMatch(AfterFlag(last.arguments[i])))
                   /\ GivenBefore(
                          FirstLongMatch(AfterFlag(last.arguments[i])).name, i))
                      => RefusedAsSecond(
                             i, FirstLongMatch(AfterFlag(last.arguments[i])))
               /\ (/\ TokenReached(i)
                   /\ FirstCharacterWithoutValue(i)
                   /\ SingleValued(
                          options[ShortMatch(AfterFlag(last.arguments[i])[1])])
                   /\ GivenBefore(
                          options[ShortMatch(AfterFlag(last.arguments[i])[1])].name,
                          i))
                      => RefusedAsSecond(
                             i,
                             options[ShortMatch(AfterFlag(last.arguments[i])[1])])

C36_Witness ==
    /\ Parsed /\ last.err = "MultipleInstances"
    /\ last.pre_map = EmptyMap
    /\ last.arguments = Arguments(<< <<"-","c">>, <<"r">>, <<"-","c","a">> >>)
    /\ Refusal.site = "short-inner"
    /\ Refusal.option = color
    /\ DOMAIN option_map = {color.name}
    /\ option_map[color.name] = << <<"r">> >>

\* The pairs of descriptors whose short options, or whose long options,
\* differ in letter case and in nothing else
ShortTwins ==
    { p \in (1..Len(options)) \X (1..Len(options)) :
        /\ p[1] < p[2]
        /\ options[p[1]].short_option # options[p[2]].short_option
        /\ Uppercase(options[p[1]].short_option)
               = Uppercase(options[p[2]].short_option) }

LongTwins ==
    { p \in (1..Len(options)) \X (1..Len(options)) :
        /\ p[1] < p[2]
        /\ options[p[1]].long_option # options[p[2]].long_option
        /\ Uppercase(options[p[1]].long_option)
               = Uppercase(options[p[2]].long_option) }

(***************************************************************************)
(* C37.  Duplicate detection in SetOptions is case-sensitive even when the *)
(* case-insensitive toggle is set: two descriptors whose short forms (or   *)
(* long forms) differ only in letter case pass validation, and under the   *)
(* toggle a token matching both is always attributed to the                *)
(* earlier-declared descriptor, so the later one is never selected through *)
(* that form.                                                              *)
(***************************************************************************)
C37_DuplicatesUpToCaseAreAccepted ==
    \* the install of a specification with such a pair and no other defect
    /\ (Installing /\ ShortTwins \cup LongTwins # {}
                   /\ Defects(Installed) = {}) => last.err = NoError
    \* and the calls made with it
    /\ (Parsed /\ case_insensitive) =>
           /\ \A i \in 2..LastPosition :
                  /\ (/\ TokenReached(i)
                      /\ LongFlagsOf(last.arguments[i]) # {}
                      /\ LongMatchesUnder(AfterFlag(last.arguments[i]), TRUE)
                             # {}) =>
                         /\ LogAt(i) = {FirstAt(i)}
                         /\ last.log[FirstAt(i)].option
                                = FirstLongMatch(AfterFlag(last.arguments[i]))
                  /\ (/\ TokenReached(i)
                      /\ LongFlagsOf(last.arguments[i]) = {}
                      /\ ShortFlagsOf(last.arguments[i]) # {}) =>
                         \A k \in LogAt(i) :
                             last.log[k].kind = "option" =>
                                 last.log[k].option
                                     = options[ShortMatch(
                                           AfterFlag(last.arguments[i])
                                               [k - FirstAt(i) + 1])]
           /\ \A k \in LogIndex :
                  /\ last.log[k].site \in {"short-inner", "short-last"} =>
                         \A p \in ShortTwins :
                             last.log[k].option # options[p[2]]
                  /\ last.log[k].site \in {"long", "long-value"} =>
                         \A p \in LongTwins :
                             last.log[k].option # options[p[2]]

C37_Witness ==
    /\ Parsed /\ last.err = NoError /\ case_insensitive
    /\ options = <<FOO, foo>>
    /\ ShortTwins = {<<1, 2>>} /\ LongTwins = {<<1, 2>>}
    /\ CheckOptions(options) = NoError
    /\ last.arguments
           = Arguments(<< <<"-","f">>, <<"-","-","f","o","o">>, <<"x">> >>)
    /\ DOMAIN option_map = {FOO.name, <<>>}
    /\ option_map[FOO.name] = << <<>>, <<>> >>

\* The token at position i is an option string: a short flag, not a long
\* one, and at least one character after it
OptionString(i) ==
    /\ LongFlagsOf(last.arguments[i]) = {}
    /\ ShortFlagsOf(last.arguments[i]) # {}
    /\ AfterFlag(last.arguments[i]) # <<>>

\* The character of the option string at position i that log entry k is for
CharacterOf(i, k) == AfterFlag(last.arguments[i])[k - FirstAt(i) + 1]

(***************************************************************************)
(* C38.  The value separator is recognised only in long-option tokens: in  *)
(* a short-option token every character after the flag prefix, separator   *)
(* characters included, is looked up as a short option, so a token such as *)
(* -s=20 never records "20" as the value of s.  A character of a           *)
(* short-option token records the empty value, or, if it is the last one   *)
(* and its descriptor expects a value, the following token.                *)
(***************************************************************************)
C38_SeparatorOnlyInLongOptions ==
    Parsed =>
        \A i \in 2..LastPosition :
            (TokenReached(i) /\ OptionString(i)) =>
                /\ Cardinality(LogAt(i)) <= Len(AfterFlag(last.arguments[i]))
                /\ \A k \in LogAt(i) :
                       /\ k - FirstAt(i) + 1
                              \in 1..Len(AfterFlag(last.arguments[i]))
                       /\ last.log[k].site
                              = IF last.log[k].kind = "error" THEN "short"
                                ELSE IF k - FirstAt(i) + 1
                                            = Len(AfterFlag(last.arguments[i]))
                                THEN "short-last" ELSE "short-inner"
                       /\ IF last.log[k].kind = "error"
                          THEN ShortMatches(CharacterOf(i, k)) = {}
                          ELSE /\ ShortMatches(CharacterOf(i, k)) # {}
                               /\ last.log[k].option
                                      = options[ShortMatch(CharacterOf(i, k))]
                       /\ last.log[k].outcome = "stored" =>
                              /\ last.log[k].value
                                     = IF /\ last.log[k].site = "short-last"
                                          /\ last.log[k].option.parameter_expected
                                       THEN last.arguments[i + 1]
                                       ELSE <<>>
                              /\ Recorded(k) = last.log[k].value
                /\ last.err = NoError =>
                       Cardinality(LogAt(i)) = Len(AfterFlag(last.arguments[i]))

C38_Witness ==
    /\ Parsed /\ last.err = "MissingOptionArgument"
    /\ options = <<all, size, equals>>
    /\ last.arguments
           = Arguments(<< <<"-","a","=">>, <<"-","s","=","2","0">> >>)
    /\ OptionString(3)
    /\ Refusal.option = size /\ Refusal.site = "short-inner"
    /\ DOMAIN option_map = {all.name, equals.name}
    /\ ~OptionGiven(size.name)

\* The state is the one a ClearOptions call left
Cleared == last.op = "ClearOptions"

\* The state is the one an error-free ParseArguments call on an empty
\* option_map left
ParsedAlone == Parsed /\ last.err = NoError /\ last.pre_map = EmptyMap

(***************************************************************************)
(* C39.  ClearOptions empties the result mapping and leaves the            *)
(* specification, flag-prefix sets, value separator and case toggle        *)
(* unchanged, so for any token sequence T that parses without error,       *)
(* ParseArguments(T); ClearOptions(); ParseArguments(T) leaves the same    *)
(* result mapping as a single ParseArguments(T) after the install.  As a   *)
(* property of steps: a ClearOptions call that follows an error-free       *)
(* ParseArguments(T) on an empty mapping leaves a mapping on which         *)
(* ParseArguments(T) ends without error in the mapping that was erased,    *)
(* and a ParseArguments call that follows a ClearOptions call finds an     *)
(* empty mapping and the configuration the ClearOptions call found.        *)
(***************************************************************************)
C39_ClearThenParseAgain ==
    [][/\ Cleared' =>
              /\ option_map' = EmptyMap
              /\ Installed' = Installed
              /\ ParsedAlone =>
                     /\ ParseArgumentsFrom(option_map', last.arguments).err
                            = NoError
                     /\ ParseArgumentsFrom(option_map', last.arguments).map
                            = option_map
       /\ (Cleared /\ Parsed') =>
              /\ last'.pre_map = EmptyMap
              /\ last'.pre_config = Installed
              /\ Installed' = Installed
      ]_vars

C39_Witness ==
    /\ Cleared /\ last.pre_entries
    /\ option_map = EmptyMap
    /\ Installed = CommandConfig
    /\ last.pre_config = CommandConfig
    /\ ParseArgumentsFrom(
           option_map, Arguments(<< <<"-","a","p">>, <<"f">> >>)).err = NoError
    /\ DOMAIN ParseArgumentsFrom(
           option_map, Arguments(<< <<"-","a","p">>, <<"f">> >>)).map
           = {all.name, pattern.name}

====
